---------------------------- MODULE Spec2Model ----------------------------
(***************************************************************************)
(* Connect-Four server (mehak1404/Connect4): the board/move state machine  *)
(* of games/models.go, the computer opponent of games/bot.go and the REST  *)
(* and socket handlers of api/handlers.go and db/connection.go that mutate *)
(* the games of the registry of db/db.go.                                  *)
(***************************************************************************)
EXTENDS Integers, Sequences, FiniteSets, TLC

(***************************************************************************)
(* Program constants (games/constants.go, games/bot.go).                   *)
(***************************************************************************)
BoardWidth == 7
BoardHeight == 6
EmptyCell == 0
RedToken == 1
YellowToken == 2
WinScore == 1000000
\* math.MinInt32, the score GetNextMove starts from.
MinInt32 == -2147483647 - 1

StatusWaiting == "waiting"
StatusActive == "active"
StatusFinished == "finished"

SinglePlayer == "single"
LocalMultiplayer == "local"
OnlineMultiplayer == "online"

BotID == "bot"
NoID == ""

Rows == 0 .. (BoardHeight - 1)
Cols == 0 .. (BoardWidth - 1)

(***************************************************************************)
(* The errors of Game.MakeMove, by their message; NoError is Go's nil.     *)
(***************************************************************************)
NoError == "nil"
ErrNotActive == "game is not active"
ErrNotInGame == "player is not in this game"
ErrNotYourTurn == "not your turn"
ErrInvalidColumn == "invalid column"
ErrColumnFull == "column is full"

(***************************************************************************)
(* Bounds of the model.                                                    *)
(***************************************************************************)
MaxMoves == 2
MaxGames == 2

(***************************************************************************)
(* Board helpers.                                                          *)
(***************************************************************************)
NewBoard == [r \in Rows |-> [c \in Cols |-> EmptyCell]]

SetMax(S) == CHOOSE x \in S : \A y \in S : y <= x
SetMin(S) == CHOOSE x \in S : \A y \in S : x <= y

\* The scan of MakeMove, were it to run from the top row down.
FindRowFromTop(board, column) ==
    LET empty == {r \in Rows : board[r][column] = EmptyCell}
    IN  IF empty = {} THEN -1 ELSE SetMin(empty)

\* The scan "for r := BoardHeight-1; r >= 0; r--" of MakeMove: the first empty
\* cell met from the bottom row (the largest row index), -1 when there is none.
FindRow(board, column) ==
    LET empty == {r \in Rows : board[r][column] = EmptyCell}
    IN  IF empty = {} THEN -1 ELSE SetMax(empty)

RECURSIVE countConsecutive(_, _, _, _, _, _)
countConsecutive(board, row, col, rowDelta, colDelta, playerToken) ==
    IF /\ row >= 0
       /\ row < BoardHeight
       /\ col >= 0
       /\ col < BoardWidth
       /\ board[row][col] = playerToken
    THEN 1 + countConsecutive(board, row + rowDelta, col + colDelta,
                              rowDelta, colDelta, playerToken)
    ELSE 0

\* The four axes of checkWinCondition, each as its pair of directions.
AxisHorizontal == <<0, 1>>
AxisVertical == <<1, 0>>
AxisRising == <<-1, 1>>
AxisFalling == <<-1, -1>>
Axes == {AxisHorizontal, AxisVertical, AxisRising, AxisFalling}

AxisCount(board, row, col, axis, playerToken) ==
    countConsecutive(board, row, col, axis[1], axis[2], playerToken)
    + countConsecutive(board, row, col, -axis[1], -axis[2], playerToken) - 1

\* checkWinCondition, were the diagonal (\) left out.
checkWinThreeAxes(board, row, col, playerToken) ==
    \E axis \in Axes \ {AxisFalling} :
        AxisCount(board, row, col, axis, playerToken) >= 4

checkWinCondition(board, row, col, playerToken) ==
    \E axis \in Axes : AxisCount(board, row, col, axis, playerToken) >= 4

\* The fullness test, were it to stop at the first column whose top is filled.
isBoardFullAnyColumn(board) == \E col \in Cols : board[0][col] # EmptyCell

isBoardFull(board) == \A col \in Cols : board[0][col] # EmptyCell

(***************************************************************************)
(* Game.MakeMove.                                                          *)
(***************************************************************************)
\* The token MakeMove resolves a player id to: the first seat is tested first.
PlayerToken(g, playerID) ==
    IF playerID = g.Player1ID THEN RedToken
    ELSE IF playerID = g.Player2ID THEN YellowToken
    ELSE EmptyCell

\* MakeMove's tests, were the column tested before the turn.
MoveErrorColumnFirst(g, playerID, column) ==
    IF g.Status # StatusActive THEN ErrNotActive
    ELSE IF playerID # g.Player1ID /\ playerID # g.Player2ID THEN ErrNotInGame
    ELSE IF column < 0 \/ column >= BoardWidth THEN ErrInvalidColumn
    ELSE IF PlayerToken(g, playerID) # g.CurrentTurn THEN ErrNotYourTurn
    ELSE IF FindRow(g.Board, column) = -1 THEN ErrColumnFull
    ELSE NoError

MoveError(g, playerID, column) ==
    IF g.Status # StatusActive THEN ErrNotActive
    ELSE IF playerID # g.Player1ID /\ playerID # g.Player2ID THEN ErrNotInGame
    ELSE IF PlayerToken(g, playerID) # g.CurrentTurn THEN ErrNotYourTurn
    ELSE IF column < 0 \/ column >= BoardWidth THEN ErrInvalidColumn
    ELSE IF FindRow(g.Board, column) = -1 THEN ErrColumnFull
    ELSE NoError

PlaceToken(board, row, column, playerToken) ==
    [board EXCEPT ![row][column] = playerToken]

SwitchTurn(turn) == IF turn = RedToken THEN YellowToken ELSE RedToken

WinnerOf(g, playerToken) ==
    IF playerToken = RedToken THEN g.Player1ID ELSE g.Player2ID

\* The board after the token is placed (models.go 112-126), for a move that
\* passed MoveError.
MovedBoard(g, playerID, column) ==
    PlaceToken(g.Board, FindRow(g.Board, column), column,
               PlayerToken(g, playerID))

\* The branch MakeMove takes: "rejected" (an error), "win", "draw", or "next"
\* (the turn passes).
MoveOutcome(g, playerID, column) ==
    IF MoveError(g, playerID, column) # NoError THEN "rejected"
    ELSE IF checkWinCondition(MovedBoard(g, playerID, column),
                              FindRow(g.Board, column), column,
                              PlayerToken(g, playerID)) THEN "win"
    ELSE IF isBoardFull(MovedBoard(g, playerID, column)) THEN "draw"
    ELSE "next"

\* MakeMove's effect, were the turn to pass before the win and draw tests.
MoveEffectTurnAlways(g, playerID, column, outcome) ==
    [g EXCEPT !.Board = MovedBoard(g, playerID, column),
              !.Status = IF outcome = "next" THEN @ ELSE StatusFinished,
              !.WinnerID = IF outcome = "win"
                           THEN WinnerOf(g, PlayerToken(g, playerID)) ELSE @,
              !.CurrentTurn = SwitchTurn(g.CurrentTurn)]

\* MakeMove from the placed token on (models.go 125-154), for a move that
\* passed MoveError and takes the branch outcome.
MoveEffect(g, playerID, column, outcome) ==
    IF outcome = "win"
    THEN [g EXCEPT !.Board = MovedBoard(g, playerID, column),
                   !.Status = StatusFinished,
                   !.WinnerID = WinnerOf(g, PlayerToken(g, playerID))]
    ELSE IF outcome = "draw"
    THEN [g EXCEPT !.Board = MovedBoard(g, playerID, column),
                   !.Status = StatusFinished]
    ELSE [g EXCEPT !.Board = MovedBoard(g, playerID, column),
                   !.CurrentTurn = SwitchTurn(g.CurrentTurn)]

\* MakeMove, were the turn to pass before the column is tested.
MakeMoveTurnFirst(g, playerID, column) ==
    LET outcome == MoveOutcome(g, playerID, column)
    IN  IF outcome # "rejected" THEN MoveEffect(g, playerID, column, outcome)
        ELSE IF MoveError(g, playerID, column) \in {ErrInvalidColumn, ErrColumnFull}
        THEN [g EXCEPT !.CurrentTurn = SwitchTurn(g.CurrentTurn)]
        ELSE g

\* The game after MakeMove(playerID, column): an error returns before any
\* field is written.
MakeMove(g, playerID, column) ==
    LET outcome == MoveOutcome(g, playerID, column)
    IN  IF outcome = "rejected" THEN g
        ELSE MoveEffect(g, playerID, column, outcome)

(***************************************************************************)
(* BotPlayer (games/bot.go).                                               *)
(***************************************************************************)
NewBotPlayer(playerID, playerToken) ==
    [PlayerID |-> playerID,
     PlayerToken |-> playerToken,
     OpponentToken |-> IF playerToken = RedToken THEN YellowToken ELSE RedToken]

\* isValidMove, were the top cell not tested.
isValidMoveInRange(board, col) == col >= 0 /\ col < BoardWidth

isValidMove(board, col) ==
    col >= 0 /\ col < BoardWidth /\ board[0][col] = EmptyCell

RECURSIVE getNextAvailableRowFrom(_, _, _)
getNextAvailableRowFrom(board, col, row) ==
    IF row < 0 THEN -1
    ELSE IF board[row][col] = EmptyCell THEN row
    ELSE getNextAvailableRowFrom(board, col, row - 1)

getNextAvailableRow(board, col) ==
    getNextAvailableRowFrom(board, col, BoardHeight - 1)

\* One counting loop of checkWin: the cells after (row, col) in one direction
\* that hold playerToken, up to the first that does not or the board's edge.
RECURSIVE botRun(_, _, _, _, _, _)
botRun(board, row, col, rowDelta, colDelta, playerToken) ==
    LET r == row + rowDelta
        c == col + colDelta
    IN  IF r >= 0 /\ r < BoardHeight /\ c >= 0 /\ c < BoardWidth
           /\ board[r][c] = playerToken
        THEN 1 + botRun(board, r, c, rowDelta, colDelta, playerToken)
        ELSE 0

checkWin(board, row, col, playerToken) ==
    \/ 1 + botRun(board, row, col, 0, 1, playerToken)
         + botRun(board, row, col, 0, -1, playerToken) >= 4
    \/ 1 + botRun(board, row, col, 1, 0, playerToken)
         + botRun(board, row, col, -1, 0, playerToken) >= 4
    \/ 1 + botRun(board, row, col, -1, 1, playerToken)
         + botRun(board, row, col, 1, -1, playerToken) >= 4
    \/ 1 + botRun(board, row, col, -1, -1, playerToken)
         + botRun(board, row, col, 1, 1, playerToken) >= 4

\* The value minimax returns to GetNextMove's loop depends on a search of depth
\* 6 or 8 and on the clock; the loop only compares it with the best so far, so
\* it is any of three values: a loss, a neutral and a win score.
MinimaxScores == {-WinScore, 0, WinScore}

\* GetNextMove's locals at the head of its loop.
GNMStart == [bestScore |-> MinInt32, bestMove |-> -1]

\* Does the drop in col win at once for the bot's own token (bot.go 65-74)?
WinsAtOnce(bot, board, col) ==
    LET row == getNextAvailableRow(board, col)
    IN  checkWin(PlaceToken(board, row, col, bot.PlayerToken), row, col,
                 bot.PlayerToken)

\* The loop body after minimax returned score for the valid column col;
\* expired is the test time.Since(StartTime) > TimeLimit (bot.go 79-91).
GNMScore(st, col, score, expired) ==
    IF expired
    THEN [brk |-> TRUE,
          st |-> [st EXCEPT !.bestMove = IF st.bestMove = -1 THEN col ELSE @]]
    ELSE [brk |-> FALSE,
          st |-> IF \/ score > st.bestScore
                    \/ (score = st.bestScore /\ col = BoardWidth \div 2)
                 THEN [bestScore |-> score, bestMove |-> col]
                 ELSE st]

\* The fallback after the loop (bot.go 95-105): the first valid column, or -1.
GNMFallback(board, bestMove) ==
    IF bestMove # -1 THEN bestMove
    ELSE LET valid == {c \in Cols : isValidMove(board, c)}
         IN  IF valid = {} THEN -1 ELSE SetMin(valid)

\* Every column GetNextMove can return on board, over all the scores minimax can
\* return and all the places the deadline can expire; sts are the loop states
\* that can reach the head of the iteration for col.
RECURSIVE GNMLoop(_, _, _, _)
GNMLoop(bot, board, col, sts) ==
    IF sts = {} THEN {}
    ELSE IF col >= BoardWidth
    THEN {GNMFallback(board, st.bestMove) : st \in sts}
    ELSE IF ~isValidMove(board, col) THEN GNMLoop(bot, board, col + 1, sts)
    ELSE IF WinsAtOnce(bot, board, col) THEN {col}
    ELSE LET outs == {GNMScore(st, col, score, expired) :
                        st \in sts, score \in MinimaxScores, expired \in BOOLEAN}
         IN  {GNMFallback(board, o.st.bestMove) : o \in {x \in outs : x.brk}}
             \cup GNMLoop(bot, board, col + 1,
                          {o.st : o \in {x \in outs : ~x.brk}})

GetNextMove(bot, board) == GNMLoop(bot, board, 0, {GNMStart})

(***************************************************************************)
(* The search itself (bot.go 107-282), with the deadline never expired.    *)
(* minimax returns its score and the transposition table it leaves;        *)
(* useTable = FALSE is the same search with the table neither read nor     *)
(* written.                                                                *)
(***************************************************************************)
MaxInt32 == 2147483647
ThreeInRow == 1000
TwoInRow == 10
OneInRow == 1
MaxDepth == 7
EndgameDepth == 9

\* boardToString: the cells row by row, each as the digit of its token.
boardToString(board) ==
    [i \in 1 .. (BoardHeight * BoardWidth) |->
        board[(i - 1) \div BoardWidth][(i - 1) % BoardWidth]]

countEmptySlots(board) ==
    Cardinality({rc \in Rows \X Cols : board[rc[1]][rc[2]] = EmptyCell})

\* GetNextMove's depth limit (bot.go 49-56).
DepthLimit(board) ==
    IF countEmptySlots(board) < (BoardHeight * BoardWidth) \div 3
    THEN EndgameDepth ELSE MaxDepth

\* The windows of four cells evaluateBoard visits: first cell and direction.
Windows ==
    {<<r, c, 0, 1>> : r \in Rows, c \in 0 .. (BoardWidth - 4)}
    \cup {<<r, c, 1, 0>> : r \in 0 .. (BoardHeight - 4), c \in Cols}
    \cup {<<r, c, -1, 1>> : r \in 3 .. (BoardHeight - 1),
                            c \in 0 .. (BoardWidth - 4)}
    \cup {<<r, c, 1, 1>> : r \in 0 .. (BoardHeight - 4),
                           c \in 0 .. (BoardWidth - 4)}

evaluateWindow(me, board, w) ==
    LET cells == {<<w[1] + i * w[3], w[2] + i * w[4]>> : i \in 0 .. 3}
        playerCount ==
            Cardinality({x \in cells : board[x[1]][x[2]] = me.PlayerToken})
        opponentCount ==
            Cardinality({x \in cells : board[x[1]][x[2]] = me.OpponentToken})
        emptyCount == 4 - playerCount - opponentCount
    IN  IF playerCount = 4 THEN WinScore
        ELSE IF playerCount = 3 /\ emptyCount = 1 THEN ThreeInRow
        ELSE IF playerCount = 2 /\ emptyCount = 2 THEN TwoInRow
        ELSE IF playerCount = 1 /\ emptyCount = 3 THEN OneInRow
        ELSE IF opponentCount = 3 /\ emptyCount = 1 THEN -ThreeInRow * 2
        ELSE IF opponentCount = 2 /\ emptyCount = 2 THEN -TwoInRow
        ELSE 0

RECURSIVE SumWindows(_, _, _)
SumWindows(me, board, ws) ==
    IF ws = {} THEN 0
    ELSE LET w == CHOOSE x \in ws : TRUE
         IN  evaluateWindow(me, board, w) + SumWindows(me, board, ws \ {w})

evaluateBoard(me, board) ==
    SumWindows(me, board, Windows)
    + 3 * Cardinality({r \in Rows :
                          board[r][BoardWidth \div 2] = me.PlayerToken})

Larger(a, b) == IF a > b THEN a ELSE b
Smaller(a, b) == IF a < b THEN a ELSE b

Cached(useTable, table, boardKey, score) ==
    IF useTable
    THEN [x \in DOMAIN table \cup {boardKey} |->
             IF x = boardKey THEN score ELSE table[x]]
    ELSE table

RECURSIVE minimax(_, _, _, _, _, _, _, _)
RECURSIVE minimaxColumns(_, _, _, _, _, _, _, _, _, _)

\* The loop over the columns of one node (bot.go 136-163 and 165-194): won is
\* the early return on a winning drop, which stores nothing.
minimaxColumns(me, useTable, board, depth, alpha, beta, maximizingPlayer, col, best, table) ==
    IF col >= BoardWidth THEN [score |-> best, won |-> FALSE, table |-> table]
    ELSE IF ~isValidMove(board, col)
    THEN minimaxColumns(me, useTable, board, depth, alpha, beta,
                        maximizingPlayer, col + 1, best, table)
    ELSE LET token == IF maximizingPlayer THEN me.PlayerToken
                      ELSE me.OpponentToken
             row == getNextAvailableRow(board, col)
             boardCopy == PlaceToken(board, row, col, token)
         IN  IF checkWin(boardCopy, row, col, token)
             THEN [score |-> IF maximizingPlayer THEN WinScore ELSE -WinScore,
                   won |-> TRUE, table |-> table]
             ELSE LET sub == minimax(me, useTable, boardCopy, depth - 1, alpha,
                                     beta, ~maximizingPlayer, table)
                      next == IF maximizingPlayer THEN Larger(best, sub.score)
                              ELSE Smaller(best, sub.score)
                      a == IF maximizingPlayer THEN Larger(alpha, next)
                           ELSE alpha
                      b == IF maximizingPlayer THEN beta
                           ELSE Smaller(beta, next)
                  IN  IF b <= a
                      THEN [score |-> next, won |-> FALSE, table |-> sub.table]
                      ELSE minimaxColumns(me, useTable, board, depth, a, b,
                                          maximizingPlayer, col + 1, next,
                                          sub.table)

minimax(me, useTable, board, depth, alpha, beta, maximizingPlayer, table) ==
    LET boardKey == boardToString(board)
    IN  IF useTable /\ boardKey \in DOMAIN table
        THEN [score |-> table[boardKey], table |-> table]
        ELSE IF isBoardFull(board) THEN [score |-> 0, table |-> table]
        ELSE IF depth = 0
        THEN [score |-> evaluateBoard(me, board),
              table |-> Cached(useTable, table, boardKey,
                               evaluateBoard(me, board))]
        ELSE LET out == minimaxColumns(me, useTable, board, depth, alpha, beta,
                                       maximizingPlayer, 0,
                                       IF maximizingPlayer THEN MinInt32
                                       ELSE MaxInt32,
                                       table)
             IN  IF out.won THEN [score |-> out.score, table |-> out.table]
                 ELSE [score |-> out.score,
                       table |-> Cached(useTable, out.table, boardKey,
                                        out.score)]

(***************************************************************************)
(* NewGame (games/models.go) with the id generateGameID returned.          *)
(***************************************************************************)
NilBot == <<>>

NewGame(id, gameType, player1ID, player2ID) ==
    [ID |-> id,
     Type |-> gameType,
     Board |-> NewBoard,
     CurrentTurn |-> RedToken,
     Player1ID |-> player1ID,
     Player2ID |-> player2ID,
     WinnerID |-> NoID,
     Status |-> StatusWaiting,
     Bot |-> IF player1ID = BotID THEN <<NewBotPlayer(player1ID, RedToken)>>
             ELSE IF player2ID = BotID
             THEN <<NewBotPlayer(player2ID, YellowToken)>>
             ELSE NilBot]

(***************************************************************************)
(* State.                                                                  *)
(*   heap      the Game objects allocated so far; a reference is an index  *)
(*   gamesMap  db.gamesMap: game id -> reference                           *)
(*   players   db.players: the win and loss counters of registered players *)
(*   endedBy   history: how each game last finished ("win", "draw"), or    *)
(*             "none" since its creation or last reset                     *)
(*   moves     history: the number of accepted MakeMove calls              *)
(*   last      the last handler that ran: its operation, inputs and answer *)
(*   pend      the game whose REST move handler has applied the player's   *)
(*             move and has not yet reached its bot step (0: none)         *)
(*   bot       a GetNextMove call run step by step (specification SpecBot) *)
(*   mm        the requests being handled step by step, one per client    *)
(*             (specification SpecMatch)                                   *)
(*   conn      the websocket connections: free, open or closed, with the   *)
(*             registry key and the Game object an open one was given      *)
(*   connections        db.connections: key -> the connections registered  *)
(*                      under it, in the order of registration; a game's   *)
(*                      key is its id, the lobby's is GlobalKey            *)
(*   playerConnections  db.playerConnections: player id -> connection      *)
(*   sent      the envelopes written by the last handler, in order         *)
(*   requested history: the reset requests that were forwarded and not yet *)
(*             answered, as pairs <<game, requester>>                      *)
(*   proc      the server process: "up", or "down" after a goroutine       *)
(*             panicked                                                    *)
(***************************************************************************)
VARIABLES heap, gamesMap, players, endedBy, moves, last, pend, bot

VARIABLES mm, conn, connections, playerConnections, sent, requested, proc

netvars == <<mm, conn, connections, playerConnections, sent, requested, proc>>

vars == <<heap, gamesMap, players, endedBy, moves, last, pend, bot,
          mm, conn, connections, playerConnections, sent, requested, proc>>

\* A step that involves no connection and no request in flight.
NetSame == UNCHANGED netvars

\* The inputs handlers are tried with.
Ids == {"alice", "bob", BotID}
Registered == {"alice", "bob"}
MoveCols == -1 .. BoardWidth
CreateInputs ==
    {<<SinglePlayer, "alice", NoID>>,
     <<SinglePlayer, BotID, "alice">>,
     <<LocalMultiplayer, "alice", "bob">>,
     <<OnlineMultiplayer, "alice", NoID>>}

Refs == 1 .. Len(heap)
Stored == {gamesMap[id] : id \in DOMAIN gamesMap}

MapPut(m, k, v) == [x \in DOMAIN m \cup {k} |-> IF x = k THEN v ELSE m[x]]

\* SaveGame and CreateGame of db.go: gamesMap[g.ID] = g.
SaveGame(m, g, ref) == MapPut(m, g.ID, ref)

\* generateGameID formats the clock to the second: a game takes the id of the
\* game created before it when both are created within one second.
GameIDs ==
    IF heap = <<>> THEN {1}
    ELSE {heap[Len(heap)].ID, heap[Len(heap)].ID + 1}

Answer(op, ref, pid, col, err) ==
    [op |-> op, ref |-> ref, pid |-> pid, col |-> col, err |-> err]

\* The history of how a game finished, after a MakeMove with this outcome.
Ended(was, outcome) == IF outcome \in {"win", "draw"} THEN outcome ELSE was

(***************************************************************************)
(* updatePlayerStats (db/connection.go).                                   *)
(***************************************************************************)
AddWin(ps, id) ==
    IF id \in DOMAIN ps THEN [ps EXCEPT ![id].Wins = @ + 1] ELSE ps

AddLoss(ps, id) ==
    IF id \in DOMAIN ps THEN [ps EXCEPT ![id].Losses = @ + 1] ELSE ps

updatePlayerStats(ps, g) ==
    IF g.Player1ID = BotID \/ g.Player2ID = BotID THEN ps
    ELSE IF g.WinnerID = NoID THEN ps
    ELSE AddLoss(AddWin(ps, g.WinnerID),
                 IF g.WinnerID = g.Player1ID THEN g.Player2ID
                 ELSE g.Player1ID)

(***************************************************************************)
(* The game socket (db.HandleConnection); ref is the game the connection   *)
(* loaded when it was opened.                                              *)
(***************************************************************************)
\* A "move" message.
SocketMove(ref, playerID, column) ==
    LET g == heap[ref]
        outcome == MoveOutcome(g, playerID, column)
        after == MakeMove(g, playerID, column)
    IN  /\ outcome = "rejected" \/ moves < MaxMoves
        /\ last' = Answer("move", ref, playerID, column,
                          MoveError(g, playerID, column))
        /\ heap' = [heap EXCEPT ![ref] = after]
        /\ IF outcome = "rejected"
           THEN UNCHANGED <<gamesMap, players, endedBy, moves>>
           ELSE /\ gamesMap' = SaveGame(gamesMap, after, ref)
                /\ endedBy' = [endedBy EXCEPT ![ref] = Ended(@, outcome)]
                /\ moves' = moves + 1
                /\ players' = IF after.Status = StatusFinished
                              THEN updatePlayerStats(players, after)
                              ELSE players
        /\ UNCHANGED <<pend, bot>>

\* The game after a "joinGame" message (connection.go 251-253).
Joined(g, playerID) ==
    [g EXCEPT !.Player2ID = playerID, !.Status = StatusActive]

SocketJoinGame(ref, playerID) ==
    /\ heap' = [heap EXCEPT ![ref] = Joined(heap[ref], playerID)]
    /\ gamesMap' = SaveGame(gamesMap, heap[ref], ref)
    /\ last' = Answer("join", ref, playerID, 0, NoError)
    /\ UNCHANGED <<players, endedBy, moves, pend, bot>>

\* The game after a confirmed "resetConfirm" (connection.go 333-340).
ResetTurn(g) ==
    IF g.WinnerID = g.Player2ID THEN YellowToken ELSE RedToken

ConfirmedReset(g) ==
    [g EXCEPT !.Status = StatusActive,
              !.Board = NewBoard,
              !.CurrentTurn = ResetTurn(g),
              !.WinnerID = NoID]

ErrNotAPlayer == "You are not a player in this game"

SocketResetConfirm(ref, playerID, confirm) ==
    LET g == heap[ref]
    IN  IF playerID # g.Player1ID /\ playerID # g.Player2ID
        THEN /\ last' = Answer("resetConfirm", ref, playerID, 0, ErrNotAPlayer)
             /\ UNCHANGED <<heap, gamesMap, players, endedBy, moves, pend, bot>>
        ELSE IF confirm
        THEN /\ heap' = [heap EXCEPT ![ref] = ConfirmedReset(g)]
             /\ gamesMap' = SaveGame(gamesMap, g, ref)
             /\ endedBy' = [endedBy EXCEPT ![ref] = "none"]
             /\ last' = Answer("resetConfirm", ref, playerID, 0, NoError)
             /\ UNCHANGED <<players, moves, pend, bot>>
        ELSE /\ last' = Answer("resetRejected", ref, playerID, 0, NoError)
             /\ UNCHANGED <<heap, gamesMap, players, endedBy, moves, pend, bot>>

(***************************************************************************)
(* The REST handlers (api/handlers.go).                                    *)
(***************************************************************************)
ErrPanic == "panic: nil pointer dereference"
ErrBotMove == "Bot move error"

\* CreateGame: the game it stores (handlers.go 401-424).
CreatedGame(id, gameType, player1ID, player2ID) ==
    LET p2 == IF gameType = SinglePlayer /\ player2ID = NoID THEN BotID
              ELSE player2ID
    IN  [NewGame(id, gameType, player1ID, p2) EXCEPT
            !.Status = IF gameType = OnlineMultiplayer /\ p2 = NoID
                       THEN StatusWaiting ELSE StatusActive]

\* A new Game object g enters the heap and the registry.
Store(g) ==
    /\ Len(heap) < MaxGames
    /\ heap' = Append(heap, g)
    /\ gamesMap' = SaveGame(gamesMap, g, Len(heap) + 1)
    /\ endedBy' = Append(endedBy, "none")

\* MakeMove, up to the first SaveGame (handlers.go 466-483).
RestMove(id, playerID, column) ==
    LET ref == gamesMap[id]
        g == heap[ref]
        outcome == MoveOutcome(g, playerID, column)
        after == MakeMove(g, playerID, column)
    IN  /\ pend = 0
        /\ outcome = "rejected" \/ moves < MaxMoves
        /\ last' = Answer("move", ref, playerID, column,
                          MoveError(g, playerID, column))
        /\ heap' = [heap EXCEPT ![ref] = after]
        /\ IF outcome = "rejected"
           THEN UNCHANGED <<gamesMap, endedBy, moves, pend>>
           ELSE /\ gamesMap' = SaveGame(gamesMap, after, ref)
                /\ endedBy' = [endedBy EXCEPT ![ref] = Ended(@, outcome)]
                /\ moves' = moves + 1
                /\ pend' = ref
        /\ UNCHANGED <<players, bot>>

\* The test of handlers.go 486-488: the game is active and waits on its bot seat.
BotToMove(g) ==
    /\ g.Status = StatusActive
    /\ \/ (g.Player1ID = BotID /\ g.CurrentTurn = RedToken)
       \/ (g.Player2ID = BotID /\ g.CurrentTurn = YellowToken)

BotPlayerID(g) == IF g.Player1ID # BotID THEN g.Player2ID ELSE g.Player1ID

\* MakeMove, from the bot test to the response (handlers.go 485-515).
RestMoveBot ==
    LET g == heap[pend]
    IN  /\ pend # 0
        /\ pend' = 0
        /\ IF ~BotToMove(g)
           THEN UNCHANGED <<heap, gamesMap, endedBy, moves, last>>
           ELSE IF g.Bot = NilBot
           THEN /\ last' = Answer("botmove", pend, BotPlayerID(g), 0, ErrPanic)
                /\ UNCHANGED <<heap, gamesMap, endedBy, moves>>
           ELSE \E botColumn \in GetNextMove(g.Bot[1], g.Board) :
                  LET outcome == MoveOutcome(g, BotPlayerID(g), botColumn)
                      after == MakeMove(g, BotPlayerID(g), botColumn)
                  IN  /\ last' = Answer("botmove", pend, BotPlayerID(g),
                                        botColumn,
                                        MoveError(g, BotPlayerID(g), botColumn))
                      /\ heap' = [heap EXCEPT ![pend] = after]
                      /\ IF outcome = "rejected"
                         THEN UNCHANGED <<gamesMap, endedBy, moves>>
                         ELSE /\ gamesMap' = SaveGame(gamesMap, after, pend)
                              /\ endedBy' =
                                   [endedBy EXCEPT ![pend] = Ended(@, outcome)]
                              /\ moves' = moves + 1
        /\ UNCHANGED <<players, bot>>

\* ResetGame: the first turn and the cleared state (handlers.go 528-546).
RestResetTurn(g) ==
    IF g.WinnerID # NoID
    THEN IF g.WinnerID = g.Player1ID THEN RedToken ELSE YellowToken
    ELSE RedToken

RestResetState(g) ==
    [g EXCEPT !.CurrentTurn = RestResetTurn(g),
              !.Board = NewBoard,
              !.Status = StatusActive,
              !.WinnerID = NoID]

\* ResetGame: the bot's fields are rewritten (handlers.go 550-560).
RestResetBot(g) ==
    IF g.Player1ID = BotID
    THEN [g EXCEPT !.Bot = <<[PlayerID |-> g.Player1ID,
                              PlayerToken |-> RedToken,
                              OpponentToken |-> YellowToken]>>]
    ELSE [g EXCEPT !.Bot = <<[PlayerID |-> g.Player2ID,
                              PlayerToken |-> YellowToken,
                              OpponentToken |-> RedToken]>>]

\* ResetGame: the game after the bot's column was applied (handlers.go 567-572).
RestResetMoved(g, botColumn) ==
    [MakeMove(g, g.Player2ID, botColumn) EXCEPT !.CurrentTurn = RedToken]

RestReset(id) ==
    LET ref == gamesMap[id]
        cleared == RestResetState(heap[ref])
        ready == RestResetBot(cleared)
    IN  /\ endedBy' = [endedBy EXCEPT ![ref] = "none"]
        /\ IF cleared.Player1ID # BotID /\ cleared.Player2ID # BotID
           THEN /\ heap' = [heap EXCEPT ![ref] = cleared]
                /\ last' = Answer("reset", ref, NoID, 0, NoError)
                /\ UNCHANGED <<gamesMap, moves>>
           ELSE IF cleared.Bot = NilBot
           THEN /\ heap' = [heap EXCEPT ![ref] = cleared]
                /\ last' = Answer("reset", ref, NoID, 0, ErrPanic)
                /\ UNCHANGED <<gamesMap, moves>>
           ELSE IF ready.CurrentTurn # YellowToken
           THEN /\ heap' = [heap EXCEPT ![ref] = ready]
                /\ gamesMap' = SaveGame(gamesMap, ready, ref)
                /\ last' = Answer("reset", ref, NoID, 0, NoError)
                /\ UNCHANGED moves
           ELSE /\ moves < MaxMoves
                /\ \E botColumn \in GetNextMove(ready.Bot[1], ready.Board) :
                     IF MoveOutcome(ready, ready.Player2ID, botColumn)
                          = "rejected"
                     THEN /\ heap' = [heap EXCEPT ![ref] =
                                        MakeMove(ready, ready.Player2ID,
                                                 botColumn)]
                          /\ last' = Answer("reset", ref, ready.Player2ID,
                                            botColumn, ErrBotMove)
                          /\ UNCHANGED <<gamesMap, moves>>
                     ELSE /\ heap' = [heap EXCEPT ![ref] =
                                        RestResetMoved(ready, botColumn)]
                          /\ gamesMap' = SaveGame(gamesMap, ready, ref)
                          /\ last' = Answer("reset", ref, ready.Player2ID,
                                            botColumn, NoError)
                          /\ moves' = moves + 1
        /\ UNCHANGED <<players, pend, bot>>

(***************************************************************************)
(* Matchmaking: the one-shot request (handlers.go MatchMaking) and the     *)
(* lobby socket (connection.go HandleGlobalConnection).                    *)
(***************************************************************************)
\* A variant of Joinable that leaves out the test of the first seat.
JoinableAnySeat(g, playerID) ==
    /\ g.Type = OnlineMultiplayer
    /\ g.Status = StatusWaiting
    /\ g.Player2ID = NoID

\* The games the one-shot request may join (handlers.go 607-610).
Joinable(g, playerID) ==
    /\ g.Type = OnlineMultiplayer
    /\ g.Status = StatusWaiting
    /\ g.Player1ID # playerID
    /\ g.Player2ID = NoID

\* The games FindWaitingGame may return (connection.go 682-686).
Waiting(g) == g.Status = StatusWaiting

\* The requester takes the second seat (handlers.go 613-614, connection.go
\* 561-562). The game met first in the map's iteration order is taken.
Join(op, ref, playerID, answer) ==
    /\ heap' = [heap EXCEPT ![ref] = Joined(heap[ref], playerID)]
    /\ gamesMap' = SaveGame(gamesMap, heap[ref], ref)
    /\ last' = Answer(op, ref, playerID, 0, answer)
    /\ UNCHANGED endedBy

\* No game to join: a new waiting game with the requester in the first seat.
Open(op, playerID, answer) ==
    /\ \E id \in GameIDs : Store(NewGame(id, OnlineMultiplayer, playerID, NoID))
    /\ last' = Answer(op, Len(heap) + 1, playerID, 0, answer)

MatchMaking(playerID) ==
    /\ IF \E ref \in Stored : Joinable(heap[ref], playerID)
       THEN \E ref \in Stored :
              /\ Joinable(heap[ref], playerID)
              /\ Join("matchmaking", ref, playerID, "matched")
       ELSE Open("matchmaking", playerID, "waiting")
    /\ UNCHANGED <<players, moves, pend, bot>>

LobbyJoinGame(playerID) ==
    /\ IF \E ref \in Stored : Waiting(heap[ref])
       THEN \E ref \in Stored :
              /\ Waiting(heap[ref])
              /\ Join("lobby", ref, playerID, "gameStart")
       ELSE Open("lobby", playerID, "gameCreated")
    /\ UNCHANGED <<players, moves, pend, bot>>

(***************************************************************************)
(* Specification Spec: the life of one stored game under requests that are *)
(* handled one after the other. It starts as CreateGame or a matchmaking   *)
(* request stored it, or after its two seats played the moves of an        *)
(* opening, every one of them accepted by MakeMove. Games are independent  *)
(* of each other: no handler reads one game to write another.              *)
(***************************************************************************)
Mover(g) == IF g.CurrentTurn = RedToken THEN g.Player1ID ELSE g.Player2ID

RECURSIVE Replay(_, _)
Replay(g, columns) ==
    IF columns = <<>> THEN g
    ELSE LET after == MakeMove(g, Mover(g), Head(columns))
         IN  IF after.Board # g.Board THEN Replay(after, Tail(columns))
             ELSE g

\* Red and yellow stack three tokens each in columns 0 and 1.
OpeningStacks == <<0, 1, 0, 1, 0, 1>>

\* Twenty moves after which red completes a falling diagonal in column 2, a
\* vertical run in column 3, a rising diagonal in column 4 and a horizontal run
\* in column 5.
OpeningAxes ==
    <<5, 3, 1, 1, 3, 2, 3, 1, 4, 1, 1, 6, 2, 0, 4, 4, 3, 2, 0, 0>>

\* Forty moves that leave the top cells of columns 0 and 6 empty: red wins in
\* column 0, and no other order of filling the two cells makes a run of four.
OpeningEndgame ==
    <<1, 3, 4, 5, 1, 1, 4, 2, 3, 5, 5, 2, 6, 3, 5, 6, 4, 1, 5, 2,
      3, 0, 0, 4, 6, 4, 0, 6, 3, 4, 0, 1, 3, 5, 2, 6, 1, 2, 2, 0>>

Openings == {OpeningStacks, OpeningAxes, OpeningEndgame}

OpeningGame(columns) ==
    Replay(CreatedGame(1, OnlineMultiplayer, "alice", "bob"), columns)

\* Eight moves of a single-player game whose first seat is the bot: the human,
\* yellow, completes a vertical run in column 1. (Any client can submit the
\* moves of either seat on the game socket.)
OpeningBotLoses == <<0, 1, 0, 1, 2, 1, 2, 1>>

BotFirstGame(columns) ==
    Replay(CreatedGame(1, SinglePlayer, BotID, "alice"), columns)

\* The games a server can hold after its first game was stored.
FirstGames ==
    {CreatedGame(1, in[1], in[2], in[3]) : in \in CreateInputs}
    \cup {NewGame(1, OnlineMultiplayer, "bob", NoID)}
    \cup {OpeningGame(columns) : columns \in Openings}
    \cup {BotFirstGame(OpeningBotLoses)}

NoAnswer == Answer("none", 0, NoID, 0, NoError)

\* No GetNextMove call is being run step by step.
BotIdle == [pc |-> "idle"]

\* The players that may ask for a match, and the connections that may open.
Requesters == {"alice", "bob"}
MaxConns == 2
Conns == 1 .. MaxConns
GlobalKey == 0

MMIdle == [pc |-> "idle"]

\* In requested, next to a game: the reset just made answered a request of
\* the other participant. The mark lasts until the answer is received.
Agreed == "agreed"
ConnFree == [state |-> "free", key |-> 0, ref |-> 0]
NoEntries == [k \in {} |-> 0]

\* No connection was opened and no matchmaking request made.
InitNet ==
    /\ mm = [p \in Requesters |-> MMIdle]
    /\ conn = [c \in Conns |-> ConnFree]
    /\ connections = NoEntries
    /\ playerConnections = NoEntries
    /\ sent = <<>>
    /\ requested = {}
    /\ proc = "up"

InitServer ==
    /\ players = [id \in Registered |-> [Wins |-> 0, Losses |-> 0]]
    /\ moves = 0
    /\ last = NoAnswer
    /\ pend = 0
    /\ InitNet

Init ==
    /\ \E g \in FirstGames :
         /\ heap = <<g>>
         /\ gamesMap = SaveGame(<< >>, g, 1)
    /\ endedBy = <<"none">>
    /\ InitServer
    /\ bot = BotIdle

\* The client reads the answer to its request before the next request is made.
Receive ==
    /\ last # NoAnswer
    /\ pend = 0
    /\ last' = NoAnswer
    /\ sent' = <<>>
    /\ requested' = {rq \in requested : rq[2] # Agreed}
    /\ UNCHANGED <<heap, gamesMap, players, endedBy, moves, pend, bot>>
    /\ UNCHANGED <<mm, conn, connections, playerConnections, proc>>

\* No request is being handled.
Idle == last = NoAnswer /\ pend = 0

Next ==
    \/ /\ Idle
       /\ \E ref \in Refs, playerID \in Ids, column \in MoveCols :
            SocketMove(ref, playerID, column)
       /\ NetSame
    \/ /\ Idle
       /\ \E ref \in Refs, playerID \in Ids : SocketJoinGame(ref, playerID)
       /\ NetSame
    \/ /\ Idle
       /\ \E ref \in Refs, playerID \in Ids, confirm \in BOOLEAN :
            SocketResetConfirm(ref, playerID, confirm)
       /\ NetSame
    \/ /\ Idle
       /\ \E id \in DOMAIN gamesMap, playerID \in Ids, column \in MoveCols :
            RestMove(id, playerID, column)
       /\ NetSame
    \/ RestMoveBot /\ NetSame
    \/ /\ Idle
       /\ \E id \in DOMAIN gamesMap : RestReset(id)
       /\ NetSame
    \/ /\ Idle
       /\ \E playerID \in Ids :
            /\ \E ref \in Stored : Joinable(heap[ref], playerID)
            /\ MatchMaking(playerID)
       /\ NetSame
    \/ /\ Idle
       /\ \E playerID \in Ids :
            /\ \E ref \in Stored : Waiting(heap[ref])
            /\ LobbyJoinGame(playerID)
       /\ NetSame
    \/ Receive

Spec == Init /\ [][Next]_vars

(***************************************************************************)
(* Specification SpecBot: one GetNextMove call run an iteration of its     *)
(* loop at a time, on the board of a stored game after up to MaxMoves      *)
(* accepted moves and for a bot of either token. The two seats' moves      *)
(* arrive on the game socket, which never calls the bot itself.            *)
(*   bot.pc    "idle", "loop" (at the head of the loop for column bot.col) *)
(*             or "done" (returned bot.ret)                                *)
(*   bot.cut   the deadline test of bot.go 80 succeeded                    *)
(***************************************************************************)
BotTokens == {RedToken, YellowToken}

BotCall(board, playerToken) ==
    [pc |-> "loop", board |-> board, me |-> NewBotPlayer(BotID, playerToken),
     col |-> 0, st |-> GNMStart, ret |-> -1, cut |-> FALSE]

BotReturn(b, column, cut) ==
    [b EXCEPT !.pc = "done", !.ret = column, !.cut = cut]

\* A seat plays an accepted move before the bot is asked.
BotAdvance ==
    /\ bot.pc = "idle"
    /\ \E ref \in Refs, column \in Cols :
         /\ MoveOutcome(heap[ref], Mover(heap[ref]), column) # "rejected"
         /\ SocketMove(ref, Mover(heap[ref]), column)
    /\ NetSame

\* GetNextMove is entered (bot.go 44-61).
BotStart ==
    /\ bot.pc = "idle"
    /\ \E ref \in Refs, playerToken \in BotTokens :
         bot' = BotCall(heap[ref].Board, playerToken)
    /\ UNCHANGED <<heap, gamesMap, players, endedBy, moves, last, pend>>
    /\ NetSame

\* One iteration of the loop over the columns, or the code after the loop
\* (bot.go 62-105).
BotStep ==
    /\ bot.pc = "loop"
    /\ IF bot.col >= BoardWidth
       THEN bot' = BotReturn(bot, GNMFallback(bot.board, bot.st.bestMove), FALSE)
       ELSE IF ~isValidMove(bot.board, bot.col)
       THEN bot' = [bot EXCEPT !.col = @ + 1]
       ELSE IF WinsAtOnce(bot.me, bot.board, bot.col)
       THEN bot' = BotReturn(bot, bot.col, FALSE)
       ELSE \E score \in MinimaxScores, expired \in BOOLEAN :
              LET out == GNMScore(bot.st, bot.col, score, expired)
              IN  IF out.brk
                  THEN bot' = BotReturn([bot EXCEPT !.st = out.st],
                                        GNMFallback(bot.board, out.st.bestMove),
                                        TRUE)
                  ELSE bot' = [bot EXCEPT !.col = @ + 1, !.st = out.st]
    /\ UNCHANGED <<heap, gamesMap, players, endedBy, moves, last, pend>>
    /\ NetSame

NextBot == BotAdvance \/ BotStart \/ BotStep

SpecBot == Init /\ [][NextBot]_vars

(***************************************************************************)
(* Envelopes. A write reaches its connection when the connection is open;  *)
(* sent keeps the envelopes that were delivered.                           *)
(***************************************************************************)
NoState == <<>>

Envelope(to, type, game, a, b, state) ==
    [to |-> to, type |-> type, game |-> game, a |-> a, b |-> b,
     state |-> state]

\* The writes that reach their connection, in the order they were made.
Delivered(envelopes) ==
    SelectSeq(envelopes, LAMBDA e : conn[e.to].state = "open")

\* sendGameCreatedMessage and sendGameStartMessage (connection.go 604-663).
GameCreatedTo(c, g) ==
    Envelope(c, "gameCreated", g.ID, g.Player1ID, NoID, NoState)

GameStartTo(c, g) ==
    Envelope(c, "gameStart", g.ID, g.Player1ID, g.Player2ID, NoState)

\* The envelopes of a lobby join that left the game g (connection.go 570-597):
\* on a match gameStart goes to the joiner's connection and then to the
\* connection registered for the first seat, if there is one.
LobbyEnvelopes(c, g, matched, registry) ==
    IF matched
    THEN <<GameStartTo(c, g)>>
         \o (IF g.Player1ID \in DOMAIN registry
             THEN <<GameStartTo(registry[g.Player1ID], g)>> ELSE <<>>)
    ELSE <<GameCreatedTo(c, g)>>

LobbyConn == [state |-> "open", key |-> GlobalKey, ref |-> 0]

\* The player whose client opened the connection c; a client sends its own
\* player id.
Owner(c) == IF c % 2 = 1 THEN "alice" ELSE "bob"

\* A "joinGame" message on the lobby connection c, handled without another
\* request in between (connection.go 544-598).
ConnLobbyJoin(c, playerID) ==
    /\ conn[c] = LobbyConn
    /\ playerID = Owner(c)
    /\ playerConnections' = MapPut(playerConnections, playerID, c)
    /\ LobbyJoinGame(playerID)
    /\ sent' = Delivered(LobbyEnvelopes(c, heap'[last'.ref],
                                        last'.err = "gameStart",
                                        playerConnections'))
    /\ UNCHANGED <<mm, conn, connections, requested, proc>>

(***************************************************************************)
(* Specification SpecMatch: matchmaking on a registry that starts empty,   *)
(* with every player's lobby connection open. A request is handled either  *)
(* in one step (MatchMaking, ConnLobbyJoin) or, for each requester once,   *)
(* one access to the registry at a time, so that two requests interleave:  *)
(*   one-shot  ListGame (snapshot under the read lock), then the scan of   *)
(*             the snapshot, then the join or the creation                 *)
(*   lobby     FindWaitingGame (under the read lock), then the join or the *)
(*             creation                                                    *)
(*   mm[p].pc  "idle", "issued", "listed", "found" or "done"               *)
(***************************************************************************)
MMRequest(pc, path, c, list, ref, empty, result) ==
    [pc |-> pc, path |-> path, conn |-> c, list |-> list, ref |-> ref,
     empty |-> empty, result |-> result]

InFlight == {p \in Requesters : mm[p].pc \in {"issued", "listed", "found"}}

\* The client of p sends a matchmaking request; empty tells whether the
\* registry held no game at that time.
MMIssue(p) ==
    /\ mm[p].pc = "idle"
    /\ mm' = [mm EXCEPT ![p] = MMRequest("issued", "", 0, {}, 0,
                                         gamesMap = NoEntries, "")]
    /\ UNCHANGED <<heap, gamesMap, players, endedBy, moves, last, pend, bot>>
    /\ UNCHANGED <<conn, connections, playerConnections, sent, requested, proc>>

\* The one-shot request of p takes its snapshot (handlers.go 599-603).
MMStartRest(p) ==
    /\ mm[p].pc = "issued"
    /\ mm' = [mm EXCEPT ![p].pc = "listed", ![p].path = "rest",
                        ![p].list = Stored]
    /\ UNCHANGED <<heap, gamesMap, players, endedBy, moves, last, pend, bot>>
    /\ UNCHANGED <<conn, connections, playerConnections, sent, requested, proc>>

\* The one-shot request of p scans its snapshot for a game to join
\* (handlers.go 606-610); the games are read as they are now.
MMScan(p) ==
    /\ mm[p].pc = "listed"
    /\ IF \E ref \in mm[p].list : Joinable(heap[ref], p)
       THEN \E ref \in mm[p].list :
              /\ Joinable(heap[ref], p)
              /\ mm' = [mm EXCEPT ![p].pc = "found", ![p].ref = ref]
       ELSE mm' = [mm EXCEPT ![p].pc = "found", ![p].ref = 0]
    /\ UNCHANGED <<heap, gamesMap, players, endedBy, moves, last, pend, bot>>
    /\ UNCHANGED <<conn, connections, playerConnections, sent, requested, proc>>

\* The lobby request of p on its connection c registers the connection and
\* looks for a waiting game (connection.go 553-555).
MMStartLobby(p, c) ==
    /\ mm[p].pc = "issued"
    /\ conn[c] = LobbyConn
    /\ p = Owner(c)
    /\ playerConnections' = MapPut(playerConnections, p, c)
    /\ IF \E ref \in Stored : Waiting(heap[ref])
       THEN \E ref \in Stored :
              /\ Waiting(heap[ref])
              /\ mm' = [mm EXCEPT ![p].pc = "found", ![p].path = "lobby",
                                  ![p].conn = c, ![p].ref = ref]
       ELSE mm' = [mm EXCEPT ![p].pc = "found", ![p].path = "lobby",
                             ![p].conn = c, ![p].ref = 0]
    /\ UNCHANGED <<heap, gamesMap, players, endedBy, moves, last, pend, bot>>
    /\ UNCHANGED <<conn, connections, sent, requested, proc>>

\* The request of p joins the game it found, or creates one (handlers.go
\* 612-648, connection.go 560-596).
MMFinish(p) ==
    /\ mm[p].pc = "found"
    /\ IF mm[p].ref # 0
       THEN /\ heap' = [heap EXCEPT ![mm[p].ref] = Joined(@, p)]
            /\ gamesMap' = SaveGame(gamesMap, heap[mm[p].ref], mm[p].ref)
            /\ UNCHANGED endedBy
            /\ mm' = [mm EXCEPT ![p].pc = "done",
                                ![p].result = IF mm[p].path = "rest"
                                              THEN "matched" ELSE "gameStart"]
            /\ sent' = IF mm[p].path = "rest" THEN sent
                       ELSE sent \o Delivered(LobbyEnvelopes(
                                        mm[p].conn, heap'[mm[p].ref], TRUE,
                                        playerConnections))
       ELSE /\ \E id \in GameIDs :
                 Store(NewGame(id, OnlineMultiplayer, p, NoID))
            /\ mm' = [mm EXCEPT ![p].pc = "done",
                                ![p].ref = Len(heap) + 1,
                                ![p].result = IF mm[p].path = "rest"
                                              THEN "waiting" ELSE "gameCreated"]
            /\ sent' = IF mm[p].path = "rest" THEN sent
                       ELSE sent \o Delivered(LobbyEnvelopes(
                                        mm[p].conn, heap'[Len(heap) + 1],
                                        FALSE, playerConnections))
    /\ UNCHANGED <<players, moves, last, pend, bot>>
    /\ UNCHANGED <<conn, connections, playerConnections, requested, proc>>

\* The registry when the requests begin: empty, or holding the waiting game
\* an earlier request of a third player created.
HostedGame == NewGame(1, OnlineMultiplayer, "carol", NoID)

InitMatch ==
    /\ \/ /\ heap = <<>>
          /\ gamesMap = NoEntries
          /\ endedBy = <<>>
       \/ /\ heap = <<HostedGame>>
          /\ gamesMap = SaveGame(<< >>, HostedGame, 1)
          /\ endedBy = <<"none">>
    /\ players = [id \in Registered |-> [Wins |-> 0, Losses |-> 0]]
    /\ moves = 0
    /\ last = NoAnswer
    /\ pend = 0
    /\ bot = BotIdle
    /\ mm = [p \in Requesters |-> MMIdle]
    /\ conn = [c \in Conns |-> LobbyConn]
    /\ connections = [k \in {GlobalKey} |-> [i \in 1 .. MaxConns |-> i]]
    /\ playerConnections = NoEntries
    /\ sent = <<>>
    /\ requested = {}
    /\ proc = "up"

NextMatch ==
    \/ \E p \in Requesters : MMIssue(p)
    \/ \E p \in Requesters : MMStartRest(p)
    \/ \E p \in Requesters : MMScan(p)
    \/ \E p \in Requesters, c \in Conns : MMStartLobby(p, c)
    \/ \E p \in Requesters : MMFinish(p)
    \/ /\ Idle
       /\ InFlight = {}
       /\ \E playerID \in Requesters : MatchMaking(playerID)
       /\ NetSame
    \/ /\ Idle
       /\ InFlight = {}
       /\ \E playerID \in Requesters, c \in Conns : ConnLobbyJoin(c, playerID)
    \/ Receive

SpecMatch == InitMatch /\ [][NextMatch]_vars

(***************************************************************************)
(* Specification SpecNet: the sockets of one server. A client opens a game *)
(* socket or the lobby socket, sends resetRequest and resetConfirm         *)
(* messages on a game socket and joinGame on the lobby, and closes its     *)
(* connections; the REST reset is called as well. A closed connection is   *)
(* never opened again. A message on a game socket may name any player: the *)
(* handlers read the player from the payload, not from the connection.     *)
(*   conn[c]            state, registry key and loaded game of connection c*)
(*   connections        key -> the connections registered under it         *)
(*   playerConnections  player id -> the connection of its last lobby join *)
(*   sent               the envelopes written by the last handler          *)
(*   requested          history: <<game, player>> for each reset request a *)
(*                      participant made that no participant answered yet, *)
(*                      and <<game, Agreed>> after a reset that answered a *)
(*                      request of the other participant                   *)
(*   proc               "up"; "down" after a panic in a connection's       *)
(*                      goroutine; "jammed" once a goroutine waits for the *)
(*                      connMutex it holds                                 *)
(***************************************************************************)
ErrDeadlock == "connMutex locked twice"

Up == proc = "up"

\* A connection after Close: nothing is read from it or written to it again.
ConnClosed == [state |-> "closed", key |-> 0, ref |-> 0]

\* The games a server can hold when the first socket is opened: a waiting
\* online game, a game of two players one move from its end, and a game with
\* the bot in either seat.
NetGames ==
    {CreatedGame(1, OnlineMultiplayer, "alice", NoID),
     OpeningGame(OpeningStacks),
     CreatedGame(1, SinglePlayer, BotID, "alice"),
     CreatedGame(1, SinglePlayer, "alice", NoID)}

InitSockets ==
    /\ \E g \in NetGames :
         /\ heap = <<g>>
         /\ gamesMap = SaveGame(<< >>, g, 1)
    /\ endedBy = <<"none">>
    /\ InitServer
    /\ bot = BotIdle

GameConn(c) == conn[c].state = "open" /\ conn[c].key # GlobalKey

\* connections[key] = append(connections[key], c) (connection.go 70-81).
Registering(registry, key, c) ==
    MapPut(registry, key,
           IF key \in DOMAIN registry THEN Append(registry[key], c)
           ELSE <<c>>)

\* RemoveGlobalConnection and RemoveGameConnection (connection.go 83-117): the
\* entry of a game is deleted when its last connection is removed.
Removing(registry, key, c) ==
    LET rest == SelectSeq(registry[key], LAMBDA x : x # c)
    IN  IF rest = <<>> /\ key # GlobalKey
        THEN [k \in DOMAIN registry \ {key} |-> registry[k]]
        ELSE [registry EXCEPT ![key] = rest]

\* One envelope for each connection of the list, in its order.
Fanout(list, type, game, a, state) ==
    [i \in 1 .. Len(list) |-> Envelope(list[i], type, game, a, NoID, state)]

ErrorTo(c, text) == Envelope(c, "error", 0, text, NoID, NoState)

\* BroadcastGameState (connection.go 120-150).
GameStateTo(list, key, g) == Fanout(list, "gameState", key, NoID, <<g>>)

\* The writes of a broadcast that are made, given the connections cs: the loop
\* over the list writes until a write fails (connection.go 141-148, 385-391,
\* 445-451). After a failed write the loop calls RemoveGameConnection, which
\* locks connMutex while the broadcast holds it: no later write is made.
Written(envelopes, cs) ==
    LET failed == {i \in 1 .. Len(envelopes) :
                     cs[envelopes[i].to].state # "open"}
    IN  IF failed = {} THEN envelopes
        ELSE SubSeq(envelopes, 1, SetMin(failed) - 1)

\* The process after a broadcast: the goroutine that had a write fail waits
\* for the lock it holds, and connMutex is never released.
AfterCast(envelopes, cs) ==
    IF Written(envelopes, cs) = envelopes THEN proc ELSE "jammed"

\* handleGameWebSocket and the start of HandleConnection (main.go 702-725,
\* connection.go 181-188): the connection is registered, the game loaded and
\* its state broadcast.
OpenGameConn(c, id) ==
    /\ conn[c] = ConnFree
    /\ conn' = [conn EXCEPT ![c] =
                  [state |-> "open", key |-> id, ref |-> gamesMap[id]]]
    /\ connections' = Registering(connections, id, c)
    /\ sent' = Written(GameStateTo(connections'[id], id, heap[gamesMap[id]]),
                       conn')
    /\ proc' = AfterCast(GameStateTo(connections'[id], id, heap[gamesMap[id]]),
                         conn')
    /\ last' = Answer("open", gamesMap[id], NoID, 0,
                      IF proc' = "jammed" THEN ErrDeadlock ELSE NoError)
    /\ UNCHANGED <<heap, gamesMap, players, endedBy, moves, pend, bot>>
    /\ UNCHANGED <<mm, playerConnections, requested>>

\* handleGlobalConnection and the start of HandleGlobalConnection
\* (connection.go 482-510).
OpenLobbyConn(c) ==
    /\ conn[c] = ConnFree
    /\ conn' = [conn EXCEPT ![c] = LobbyConn]
    /\ connections' = Registering(connections, GlobalKey, c)
    /\ sent' = <<Envelope(c, "connected", 0, NoID, NoID, NoState)>>
    /\ last' = Answer("openLobby", 0, NoID, 0, NoError)
    /\ UNCHANGED <<heap, gamesMap, players, endedBy, moves, pend, bot>>
    /\ UNCHANGED <<mm, playerConnections, requested, proc>>

\* The client closes c: ReadMessage fails and the deferred functions close
\* and unregister the connection (connection.go 157-160, 486-490). The entry
\* of playerConnections stays.
CloseConn(c) ==
    /\ conn[c].state = "open"
    /\ conn' = [conn EXCEPT ![c] = ConnClosed]
    /\ connections' = Removing(connections, conn[c].key, c)
    /\ UNCHANGED <<heap, gamesMap, players, endedBy, moves, last, pend, bot>>
    /\ UNCHANGED <<mm, playerConnections, sent, requested, proc>>

OtherParticipant(g, playerID) ==
    IF playerID = g.Player1ID THEN g.Player2ID ELSE g.Player1ID

\* A "resetRequest" message on the game socket c (connection.go 275-312) and
\* BroadcastResetRequest (394-421): the envelope is written to the connection
\* playerConnections holds for the other participant. With no entry the write
\* is made through a nil connection and the goroutine panics; when the write
\* fails RemoveGameConnection locks connMutex, which the caller holds.
ConnResetRequest(c, playerID) ==
    LET ref == conn[c].ref
        g == heap[ref]
        other == OtherParticipant(g, playerID)
    IN  /\ GameConn(c)
        /\ IF playerID # g.Player1ID /\ playerID # g.Player2ID
           THEN /\ sent' = <<ErrorTo(c, ErrNotAPlayer)>>
                /\ last' = Answer("resetRequest", ref, playerID, 0,
                                  ErrNotAPlayer)
                /\ UNCHANGED <<requested, proc>>
           ELSE /\ requested' = requested \cup {<<ref, playerID>>}
                /\ IF other \notin DOMAIN playerConnections
                   THEN /\ sent' = <<>>
                        /\ proc' = "down"
                        /\ last' = Answer("resetRequest", ref, playerID, 0,
                                          ErrPanic)
                   ELSE IF conn[playerConnections[other]].state # "open"
                   THEN /\ sent' = <<>>
                        /\ proc' = "jammed"
                        /\ last' = Answer("resetRequest", ref, playerID, 0,
                                          ErrDeadlock)
                   ELSE /\ sent' = <<Envelope(playerConnections[other],
                                              "resetRequest", conn[c].key,
                                              playerID, NoID, NoState)>>
                        /\ proc' = proc
                        /\ last' = Answer("resetRequest", ref, playerID, 0,
                                          NoError)
        /\ UNCHANGED <<heap, gamesMap, players, endedBy, moves, pend, bot>>
        /\ UNCHANGED <<mm, conn, connections, playerConnections>>

\* A variant of ResetConfirmEnvelopes whose rejection skips the sender.
ResetConfirmEnvelopesToOthers(c, list, g, playerID, confirm) ==
    IF playerID # g.Player1ID /\ playerID # g.Player2ID
    THEN <<ErrorTo(c, ErrNotAPlayer)>>
    ELSE IF confirm
    THEN Fanout(list, "resetGame", conn[c].key, NoID, NoState)
         \o GameStateTo(list, conn[c].key, g)
    ELSE Fanout(SelectSeq(list, LAMBDA x : x # c), "resetRejected",
                conn[c].key, playerID, NoState)

\* The envelopes of a "resetConfirm" message (connection.go 325-361): an error
\* to the sender, or BroadcastResetGame followed by BroadcastGameState, or
\* BroadcastResetRejected.
ResetConfirmEnvelopes(c, list, g, playerID, confirm) ==
    IF playerID # g.Player1ID /\ playerID # g.Player2ID
    THEN <<ErrorTo(c, ErrNotAPlayer)>>
    ELSE IF confirm
    THEN Fanout(list, "resetGame", conn[c].key, NoID, NoState)
         \o GameStateTo(list, conn[c].key, g)
    ELSE Fanout(list, "resetRejected", conn[c].key, playerID, NoState)

\* A "resetConfirm" message on the game socket c (connection.go 313-361). A
\* participant's answer ends the requests made for the game.
ConnResetConfirm(c, playerID, confirm) ==
    LET ref == conn[c].ref
    IN  /\ GameConn(c)
        /\ SocketResetConfirm(ref, playerID, confirm)
        /\ sent' = Written(ResetConfirmEnvelopes(c, connections[conn[c].key],
                                                 heap'[ref], playerID,
                                                 confirm), conn)
        /\ proc' = AfterCast(ResetConfirmEnvelopes(c, connections[conn[c].key],
                                                   heap'[ref], playerID,
                                                   confirm), conn)
        /\ requested' =
             IF playerID \in {heap[ref].Player1ID, heap[ref].Player2ID}
             THEN {rq \in requested : rq[1] # ref}
                  \cup (IF confirm /\ \E rq \in requested :
                                        rq[1] = ref /\ rq[2] # playerID
                        THEN {<<ref, Agreed>>} ELSE {})
             ELSE requested
        /\ UNCHANGED <<mm, conn, connections, playerConnections>>

NextNet ==
    \/ /\ Idle /\ Up
       /\ \E c \in Conns, id \in DOMAIN gamesMap : OpenGameConn(c, id)
    \/ /\ Idle /\ Up
       /\ \E c \in Conns : OpenLobbyConn(c)
    \/ /\ Idle /\ Up
       /\ \E c \in Conns : CloseConn(c)
    \/ /\ Idle /\ Up
       /\ \E c \in Conns : ConnLobbyJoin(c, Owner(c))
    \/ /\ Idle /\ Up
       /\ \E c \in Conns, playerID \in Ids : ConnResetRequest(c, playerID)
    \/ /\ Idle /\ Up
       /\ \E c \in Conns, playerID \in Ids, confirm \in BOOLEAN :
            ConnResetConfirm(c, playerID, confirm)
    \/ /\ Idle /\ Up
       /\ \E id \in DOMAIN gamesMap : RestReset(id)
       /\ NetSame
    \/ Receive

SpecNet == InitSockets /\ [][NextNet]_vars

(***************************************************************************)
(* Specification SpecCast: moves and broadcasts of one game. Clients open  *)
(* game sockets and send moves on them or through the REST handler. A      *)
(* connection goes away in two steps, as the deferred cleanup of           *)
(* HandleConnection does: conn.Close(), after which a write to it fails    *)
(* while the fan-out list still holds it, then RemoveGameConnection.       *)
(***************************************************************************)
\* The columns of the moves: one outside the board and the two columns in
\* which the stacked opening is decided.
CastCols == {-1, 0, 1}

\* A game of two players one move from its end, and a game against the bot.
CastGames ==
    {OpeningGame(OpeningStacks), CreatedGame(1, SinglePlayer, "alice", NoID)}

InitCast ==
    /\ \E g \in CastGames :
         /\ heap = <<g>>
         /\ gamesMap = SaveGame(<< >>, g, 1)
    /\ endedBy = <<"none">>
    /\ InitServer
    /\ bot = BotIdle

\* conn.Close() of the deferred cleanup (connection.go 157-159), or of the
\* ping goroutine's peer: the connection is closed and still registered.
DropConn(c) ==
    /\ GameConn(c)
    /\ conn' = [conn EXCEPT ![c].state = "closing"]
    /\ UNCHANGED <<heap, gamesMap, players, endedBy, moves, last, pend, bot>>
    /\ UNCHANGED <<mm, connections, playerConnections, sent, requested, proc>>

\* RemoveGameConnection of the deferred cleanup (connection.go 159, 96-117).
Deregister(c) ==
    /\ conn[c].state = "closing"
    /\ conn' = [conn EXCEPT ![c] = ConnClosed]
    /\ connections' = Removing(connections, conn[c].key, c)
    /\ UNCHANGED <<heap, gamesMap, players, endedBy, moves, last, pend, bot>>
    /\ UNCHANGED <<mm, playerConnections, sent, requested, proc>>

\* The envelopes of a "move" message (connection.go 214-232): the error to the
\* sender, or the broadcast of the new state.
MoveEnvelopes(c, list, g, err) ==
    IF err # NoError THEN <<ErrorTo(c, err)>>
    ELSE GameStateTo(list, conn[c].key, g)

\* A "move" message on the game socket c (connection.go 206-239): MakeMove,
\* SaveGame, the broadcast and then updatePlayerStats, which is not reached
\* when the broadcast does not return.
ConnMove(c, playerID, column) ==
    LET ref == conn[c].ref
        g == heap[ref]
        outcome == MoveOutcome(g, playerID, column)
        after == MakeMove(g, playerID, column)
        envelopes == MoveEnvelopes(c, connections[conn[c].key], after,
                                   MoveError(g, playerID, column))
    IN  /\ GameConn(c)
        /\ outcome = "rejected" \/ moves < MaxMoves
        /\ last' = Answer("move", ref, playerID, column,
                          MoveError(g, playerID, column))
        /\ heap' = [heap EXCEPT ![ref] = after]
        /\ sent' = Written(envelopes, conn)
        /\ proc' = AfterCast(envelopes, conn)
        /\ IF outcome = "rejected"
           THEN UNCHANGED <<gamesMap, players, endedBy, moves>>
           ELSE /\ gamesMap' = SaveGame(gamesMap, after, ref)
                /\ endedBy' = [endedBy EXCEPT ![ref] = Ended(@, outcome)]
                /\ moves' = moves + 1
                /\ players' = IF after.Status = StatusFinished
                                 /\ proc' = "up"
                              THEN updatePlayerStats(players, after)
                              ELSE players
        /\ UNCHANGED <<pend, bot>>
        /\ UNCHANGED <<mm, conn, connections, playerConnections, requested>>

NextCast ==
    \/ /\ Idle /\ Up
       /\ \E c \in Conns, id \in DOMAIN gamesMap : OpenGameConn(c, id)
    \/ /\ Idle /\ Up
       /\ \E c \in Conns : DropConn(c)
    \/ /\ Idle /\ Up
       /\ \E c \in Conns : Deregister(c)
    \/ /\ Idle /\ Up
       /\ \E c \in Conns, playerID \in Registered, column \in CastCols :
            ConnMove(c, playerID, column)
    \/ /\ Idle
       /\ \E id \in DOMAIN gamesMap, playerID \in Registered,
             column \in CastCols : RestMove(id, playerID, column)
       /\ NetSame
    \/ RestMoveBot /\ NetSame
    \/ Receive

SpecCast == InitCast /\ [][NextCast]_vars

(***************************************************************************)
(* Two move submissions on one game, statement by statement.  Each handler *)
(* (connection.go 206-232 on a socket, handlers.go MakeMove over REST)     *)
(* takes the game from GetGame (db.go 33-43), which returns the stored     *)
(* pointer and releases gameMutex before returning, and then runs          *)
(* game.MakeMove (models.go 86-154) on that shared object with no lock     *)
(* held.  The statements of the two calls therefore interleave:            *)
(*   mm[p].pc  "idle", "ready" (game fetched), "checked" (tests passed and *)
(*             the row found, models.go 88-124), "placed" (token written,  *)
(*             models.go 126) or "done" (win, draw or turn, 129-150, and   *)
(*             SaveGame, which stores the same pointer again)              *)
(***************************************************************************)
RaceCols == {0, 1}

RaceGames == {OpeningGame(OpeningStacks), OpeningGame(<<>>)}

RaceCall(pc, playerID, column, playerToken, row, err, start) ==
    [pc |-> pc, pid |-> playerID, column |-> column, token |-> playerToken,
     row |-> row, err |-> err, start |-> start]

InitRace ==
    /\ \E g \in RaceGames :
         /\ heap = <<g>>
         /\ gamesMap = SaveGame(<< >>, g, 1)
    /\ endedBy = <<"none">>
    /\ InitServer
    /\ bot = BotIdle

RaceSame ==
    UNCHANGED <<gamesMap, players, endedBy, moves, last, pend, bot, conn,
                connections, playerConnections, sent, requested, proc>>

\* Both submissions arrive and each handler fetches the game (GetGame).
RaceArrive ==
    /\ \A p \in Requesters : mm[p].pc = "idle"
    /\ \E m \in [Requesters -> Registered \X RaceCols] :
          mm' = [p \in Requesters |->
                    RaceCall("ready", m[p][1], m[p][2], EmptyCell, -1,
                             NoError, heap[1])]
    /\ UNCHANGED heap
    /\ RaceSame

\* models.go 88-124: the tests and the row scan, on the object as it is now.
RaceCheck(p) ==
    /\ mm[p].pc = "ready"
    /\ LET g   == heap[1]
           err == MoveError(g, mm[p].pid, mm[p].column)
       IN  mm' = [mm EXCEPT ![p] =
                     IF err # NoError
                     THEN [mm[p] EXCEPT !.pc = "done", !.err = err]
                     ELSE [mm[p] EXCEPT !.pc = "checked",
                                        !.token = PlayerToken(g, mm[p].pid),
                                        !.row = FindRow(g.Board, mm[p].column)]]
    /\ UNCHANGED heap
    /\ RaceSame

\* models.go 126: g.Board[row][column] = playerToken.
RacePlace(p) ==
    /\ mm[p].pc = "checked"
    /\ heap' = [heap EXCEPT ![1].Board =
                   PlaceToken(heap[1].Board, mm[p].row, mm[p].column,
                              mm[p].token)]
    /\ mm' = [mm EXCEPT ![p].pc = "placed"]
    /\ RaceSame

\* models.go 129-150: the win test, the draw test, else the turn passes.
RaceFinish(p) ==
    /\ mm[p].pc = "placed"
    /\ LET g == heap[1]
       IN  heap' = [heap EXCEPT ![1] =
               IF checkWinCondition(g.Board, mm[p].row, mm[p].column,
                                    mm[p].token)
               THEN [g EXCEPT !.Status = StatusFinished,
                              !.WinnerID = WinnerOf(g, mm[p].token)]
               ELSE IF isBoardFull(g.Board)
               THEN [g EXCEPT !.Status = StatusFinished]
               ELSE [g EXCEPT !.CurrentTurn = SwitchTurn(g.CurrentTurn)]]
    /\ mm' = [mm EXCEPT ![p].pc = "done"]
    /\ RaceSame

NextRace ==
    \/ RaceArrive
    \/ \E p \in Requesters : RaceCheck(p)
    \/ \E p \in Requesters : RacePlace(p)
    \/ \E p \in Requesters : RaceFinish(p)

SpecRace == InitRace /\ [][NextRace]_vars

(***************************************************************************)
(* Specification SpecMemo: one GetNextMove call with the search computed,  *)
(* an iteration of its loop at a time and with no deadline expiry, on the  *)
(* board of an endgame after up to MaxMoves further moves. The same search *)
(* without the transposition table runs beside it, iteration by iteration. *)
(*   bot.table  TransTable, emptied when the call starts (bot.go 47)       *)
(*   bot.score  the score minimax returned in the last iteration           *)
(*   bot.plain, bot.pscore, bot.pret   those of the search without table   *)
(***************************************************************************)
\* Thirty-five and thirty-six moves without a run of four.
MemoOpeningA ==
    <<6, 0, 5, 4, 3, 6, 4, 0, 4, 1, 3, 4, 4, 4, 6, 5, 0, 0, 5, 0, 0, 3, 3, 1,
      2, 6, 2, 5, 6, 2, 2, 5, 2, 2, 6>>

MemoOpeningB ==
    <<5, 6, 4, 6, 3, 0, 5, 5, 4, 4, 6, 1, 6, 1, 0, 6, 6, 0, 0, 3, 1, 0, 5, 2,
      1, 1, 1, 2, 2, 2, 2, 0, 2, 5, 3, 3>>

MemoGames == {OpeningGame(MemoOpeningA), OpeningGame(MemoOpeningB)}

InitMemo ==
    /\ \E g \in MemoGames :
         /\ heap = <<g>>
         /\ gamesMap = SaveGame(<< >>, g, 1)
    /\ endedBy = <<"none">>
    /\ InitServer
    /\ bot = BotIdle

SearchCall(board, playerToken) ==
    [pc |-> "loop", board |-> board, me |-> NewBotPlayer(BotID, playerToken),
     col |-> 0, st |-> GNMStart, ret |-> -1, table |-> NoEntries, score |-> 0,
     plain |-> GNMStart, pret |-> -1, pscore |-> 0]

\* GetNextMove is entered (bot.go 44-61).
SearchStart ==
    /\ bot.pc = "idle"
    /\ \E ref \in Refs, playerToken \in BotTokens :
         bot' = SearchCall(heap[ref].Board, playerToken)
    /\ UNCHANGED <<heap, gamesMap, players, endedBy, moves, last, pend>>
    /\ NetSame

\* One iteration of the loop over the columns, or the code after the loop
\* (bot.go 62-105).
SearchStep ==
    /\ bot.pc = "loop"
    /\ IF bot.col >= BoardWidth
       THEN bot' = [bot EXCEPT
                       !.pc = "done",
                       !.ret = GNMFallback(bot.board, bot.st.bestMove),
                       !.pret = GNMFallback(bot.board, bot.plain.bestMove)]
       ELSE IF ~isValidMove(bot.board, bot.col)
       THEN bot' = [bot EXCEPT !.col = @ + 1]
       ELSE IF WinsAtOnce(bot.me, bot.board, bot.col)
       THEN bot' = [bot EXCEPT !.pc = "done", !.ret = bot.col,
                               !.pret = bot.col]
       ELSE LET row == getNextAvailableRow(bot.board, bot.col)
                boardCopy == PlaceToken(bot.board, row, bot.col,
                                        bot.me.PlayerToken)
                depth == DepthLimit(bot.board) - 1
                with == minimax(bot.me, TRUE, boardCopy, depth, MinInt32,
                                MaxInt32, FALSE, bot.table)
                without == minimax(bot.me, FALSE, boardCopy, depth, MinInt32,
                                   MaxInt32, FALSE, NoEntries)
            IN  bot' = [bot EXCEPT
                           !.col = @ + 1,
                           !.table = with.table,
                           !.score = with.score,
                           !.st = GNMScore(bot.st, bot.col, with.score,
                                           FALSE).st,
                           !.pscore = without.score,
                           !.plain = GNMScore(bot.plain, bot.col,
                                              without.score, FALSE).st]
    /\ UNCHANGED <<heap, gamesMap, players, endedBy, moves, last, pend>>
    /\ NetSame

NextMemo == BotAdvance \/ SearchStart \/ SearchStep

SpecMemo == InitMemo /\ [][NextMemo]_vars

(***************************************************************************)
(* Properties. A step of Spec in which a handler called MakeMove records   *)
(* the call in last': the game (ref), the player id, the column and the    *)
(* error returned. The definitions below read the game before and after    *)
(* such a step; they restate the properties without the operators above.   *)
(***************************************************************************)
MoveStep ==
    /\ last' # last
    /\ last'.op \in {"move", "botmove"}
    /\ last'.err # ErrPanic

ResetStep == last' # last /\ last'.op \in {"reset", "resetConfirm"}

Before == heap[last'.ref]
After == heap'[last'.ref]

\* The token of the seat a participant's id matches.
SeatToken(g, playerID) ==
    IF playerID = g.Player1ID THEN RedToken ELSE YellowToken

OtherToken(token) == IF token = RedToken THEN YellowToken ELSE RedToken

ColumnFull(board, column) == board[0][column] # EmptyCell

\* The lowest empty row of a column that is not full.
LowestEmpty(board, column) ==
    CHOOSE r \in Rows :
        /\ board[r][column] = EmptyCell
        /\ \A below \in Rows : below > r => board[below][column] # EmptyCell

\* The five preconditions in the order of the property, TRUE where violated.
Violated(g, playerID, column) ==
    <<g.Status # StatusActive,
      playerID # g.Player1ID /\ playerID # g.Player2ID,
      SeatToken(g, playerID) # g.CurrentTurn,
      column \notin Cols,
      column \in Cols /\ ColumnFull(g.Board, column)>>

ErrorKinds ==
    <<ErrNotActive, ErrNotInGame, ErrNotYourTurn, ErrInvalidColumn,
      ErrColumnFull>>

FirstViolated(g, playerID, column) ==
    LET bad == {i \in 1 .. 5 : Violated(g, playerID, column)[i]}
    IN  IF bad = {} THEN NoError ELSE ErrorKinds[SetMin(bad)]

\* All five preconditions hold.
Playable(g, playerID, column) == FirstViolated(g, playerID, column) = NoError

\* (row, col) lies on four consecutive cells of token along the direction
\* (dr, dc).
RunThrough(board, row, col, dr, dc, token) ==
    \E k \in 0 .. 3 :
        \A i \in 0 .. 3 :
            /\ row + (i - k) * dr \in Rows
            /\ col + (i - k) * dc \in Cols
            /\ board[row + (i - k) * dr][col + (i - k) * dc] = token

HasRun(board, row, col, token) ==
    \/ RunThrough(board, row, col, 0, 1, token)
    \/ RunThrough(board, row, col, 1, 0, token)
    \/ RunThrough(board, row, col, 1, -1, token)
    \/ RunThrough(board, row, col, 1, 1, token)

\* The cell an accepted move filled, and whether it completed a run.
PlacedRow == LowestEmpty(Before.Board, last'.col)

MoveCompletesRun ==
    HasRun(After.Board, PlacedRow, last'.col, SeatToken(Before, last'.pid))

\* C1: MakeMove tests its preconditions in the order not active, not a
\* participant, not the mover's turn, column out of range, column full: the
\* error it returns is that of the first precondition violated, and the five
\* errors are pairwise distinct (and distinct from success).
C1_FirstViolatedPrecondition ==
    [][MoveStep =>
         /\ last'.err = FirstViolated(Before, last'.pid, last'.col)
         /\ Cardinality({ErrorKinds[i] : i \in 1 .. 5} \cup {NoError}) = 6]_vars

\* C1 witness: a participant moved out of turn into a column out of range, and
\* was told it is not their turn.
C1_Witness ==
    /\ last.op = "move"
    /\ last.err = ErrNotYourTurn
    /\ last.col \notin Cols
    /\ heap[last.ref].Status = StatusActive

\* C2: on an active game, a participant whose token is to move and a column in
\* range that is not full, MakeMove succeeds, writes the mover's token into the
\* lowest empty row of the column and changes no other cell.
C2_TokenInLowestEmptyRow ==
    [][MoveStep /\ Playable(Before, last'.pid, last'.col) =>
         /\ last'.err = NoError
         /\ After.Board =
              [Before.Board EXCEPT ![PlacedRow][last'.col] =
                                      SeatToken(Before, last'.pid)]]_vars

\* C2 witness: an accepted move put its token on top of another token, with
\* empty cells above it.
C2_Witness ==
    /\ last.op = "move"
    /\ last.err = NoError
    /\ \E r \in 1 .. BoardHeight - 2 :
         /\ heap[last.ref].Board[r][last.col]
              = SeatToken(heap[last.ref], last.pid)
         /\ heap[last.ref].Board[r - 1][last.col] = EmptyCell
         /\ heap[last.ref].Board[r + 1][last.col] # EmptyCell

\* C3: a MakeMove that returns an error leaves the game (board, currentTurn,
\* status, winnerId) as it was; a move into a full column always fails, and
\* fails with the column-full error when the four earlier preconditions hold.
C3_RejectedMoveChangesNothing ==
    [][MoveStep =>
         /\ last'.err # NoError => After = Before
         /\ (last'.col \in Cols /\ ColumnFull(Before.Board, last'.col)) =>
              /\ last'.err # NoError
              /\ After.Board = Before.Board
              /\ (\A i \in 1 .. 4 :
                    ~Violated(Before, last'.pid, last'.col)[i])
                 => last'.err = ErrColumnFull]_vars

\* C3 witness: the player to move chose a full column and was told so.
C3_Witness ==
    /\ last.op = "move"
    /\ last.err = ErrColumnFull
    /\ ColumnFull(heap[last.ref].Board, last.col)

C5_DrawHasNoWinner ==
    [][(/\ MoveStep
        /\ last'.err = NoError
        /\ \A r \in Rows, c \in Cols : After.Board[r][c] # EmptyCell
        /\ ~MoveCompletesRun)
       => After.Status = StatusFinished /\ After.WinnerID = NoID]_vars

\* A draw as the property describes it: the board filled without a run and
\* the game finished with no winner.
C5_Witness ==
    /\ last.op = "move"
    /\ last.err = NoError
    /\ \A r \in Rows, c \in Cols : heap[last.ref].Board[r][c] # EmptyCell
    /\ heap[last.ref].Status = StatusFinished
    /\ heap[last.ref].WinnerID = NoID

\* C6: outside of a reset, currentTurn changes only in an accepted move that
\* leaves the game active, and then becomes the other token; a rejected move
\* and an accepted move that finishes the game leave it as it was.
C6_TurnFlipsOncePerMove ==
    [][\A ref \in DOMAIN heap :
         LET moved == MoveStep /\ last'.ref = ref
             passes == /\ moved
                       /\ last'.err = NoError
                       /\ heap'[ref].Status = StatusActive
         IN  /\ (heap'[ref].CurrentTurn # heap[ref].CurrentTurn)
                  => (passes \/ ResetStep)
             /\ passes =>
                  heap'[ref].CurrentTurn = OtherToken(heap[ref].CurrentTurn)
             /\ (moved /\ ~passes) =>
                  heap'[ref].CurrentTurn = heap[ref].CurrentTurn]_vars

\* C6 witness: an accepted move left the game active with the turn at the
\* other seat's token.
C6_Witness ==
    /\ last.op = "move"
    /\ last.err = NoError
    /\ heap[last.ref].Status = StatusActive
    /\ heap[last.ref].CurrentTurn
         = OtherToken(SeatToken(heap[last.ref], last.pid))

\* C7: a move that wins leaves winnerId the mover's id, and from then until
\* the game is reset every move submitted to it is rejected with the
\* not-active error and changes nothing.
C7_WonGameRejectsMoves ==
    [][MoveStep =>
         /\ (last'.err = NoError /\ MoveCompletesRun)
              => After.WinnerID = last'.pid
         /\ endedBy[last'.ref] = "win"
              => (last'.err = ErrNotActive /\ After = Before)]_vars

\* A move submitted to a game that was won and not reset since was rejected
\* with the not-active error.
C7_Witness ==
    /\ last.op = "move"
    /\ last.err = ErrNotActive
    /\ endedBy[last.ref] = "win"
    /\ heap[last.ref].WinnerID \in {heap[last.ref].Player1ID,
                                    heap[last.ref].Player2ID}

\* C8: a game's status changes only from waiting to active and from active to
\* finished, except that a reset returns a finished game to active; no join,
\* matchmaking request or move does.
C8_StatusMovesForward ==
    [][\A ref \in DOMAIN heap :
         \/ heap'[ref].Status = heap[ref].Status
         \/ heap[ref].Status = StatusWaiting /\ heap'[ref].Status = StatusActive
         \/ heap[ref].Status = StatusActive /\ heap'[ref].Status = StatusFinished
         \/ /\ heap[ref].Status = StatusFinished
            /\ heap'[ref].Status = StatusActive
            /\ ResetStep]_vars

\* A "joinGame" message on the game socket made a waiting game active.
C8_Witness ==
    /\ last.op = "join"
    /\ heap[last.ref].Status = StatusActive
    /\ heap[last.ref].Board = NewBoard
    /\ endedBy[last.ref] = "none"

\* C9: in every state of every game, winnerId is non-empty exactly when the
\* game is finished and was finished by a win.
C9_WinnerIffFinishedByWin ==
    \A ref \in DOMAIN heap :
        heap[ref].WinnerID # NoID
          <=> (heap[ref].Status = StatusFinished /\ endedBy[ref] = "win")

\* A game finished by a win holds its winner's id.
C9_Witness ==
    \E ref \in DOMAIN heap :
        /\ heap[ref].Status = StatusFinished
        /\ endedBy[ref] = "win"
        /\ heap[ref].WinnerID = last.pid
        /\ last.op = "move"

\* C10: when GetNextMove returns on a board with a column that is not full,
\* it returns a column in [0, 7) whose top cell is empty, wherever the deadline
\* expired during the call.
C10_BotReturnsOpenColumn ==
    (bot.pc = "done" /\ \E c \in Cols : bot.board[0][c] = EmptyCell)
      => (bot.ret \in Cols /\ bot.board[0][bot.ret] = EmptyCell)

\* C10 witness: the deadline expired on the first column scored, before any
\* score was kept, on a board whose column 0 is full; the column scored was
\* returned.
C10_Witness ==
    /\ bot.pc = "done"
    /\ bot.cut
    /\ bot.st.bestScore = MinInt32
    /\ bot.board[0][0] # EmptyCell
    /\ bot.ret \in Cols
    /\ bot.board[0][bot.ret] = EmptyCell

\* The legal columns of the call's board whose drop completes four in a row
\* for the bot's own token.
BotWinningColumns ==
    {c \in Cols :
       /\ bot.board[0][c] = EmptyCell
       /\ HasRun([bot.board EXCEPT
                    ![LowestEmpty(bot.board, c)][c] = bot.me.PlayerToken],
                 LowestEmpty(bot.board, c), c, bot.me.PlayerToken)}

\* C11: when GetNextMove returns on a board with a legal column that wins at
\* once for the bot's own token, it returns such a column, wherever the
\* deadline fell during the call.
C11_BotTakesImmediateWin ==
    (bot.pc = "done" /\ BotWinningColumns # {})
      => bot.ret \in BotWinningColumns

\* C11 witness: a call returned a winning column that is not the first legal
\* column, after scoring the columns before it within the deadline.
C11_Witness ==
    /\ bot.pc = "done"
    /\ ~bot.cut
    /\ bot.ret \in BotWinningColumns
    /\ bot.st.bestMove # -1
    /\ bot.st.bestMove < bot.ret

(***************************************************************************)
(* Matchmaking properties (specification SpecMatch).                       *)
(***************************************************************************)
\* A game the one-shot request of playerID may join, as the property says.
Eligible(g, playerID) ==
    /\ g.Type = OnlineMultiplayer
    /\ g.Status = StatusWaiting
    /\ g.Player2ID = NoID
    /\ g.Player1ID # playerID

\* The game is new, waiting, with playerID alone in the first seat.
OpenedBy(g, playerID) ==
    /\ g.Type = OnlineMultiplayer
    /\ g.Status = StatusWaiting
    /\ g.Player1ID = playerID
    /\ g.Player2ID = NoID
    /\ g.Board = NewBoard

\* The step joined playerID to the stored game ref and wrote nothing else.
JoinedOnly(ref, playerID) ==
    /\ heap' = [heap EXCEPT ![ref] =
                  [heap[ref] EXCEPT !.Player2ID = playerID,
                                    !.Status = StatusActive]]
    /\ DOMAIN gamesMap' = DOMAIN gamesMap

\* The step created exactly one game, opened by playerID, and stored it.
CreatedOnly(playerID) ==
    /\ Len(heap') = Len(heap) + 1
    /\ SubSeq(heap', 1, Len(heap)) = heap
    /\ OpenedBy(heap'[Len(heap')], playerID)
    /\ gamesMap'[heap'[Len(heap')].ID] = Len(heap')

\* The requests of both requesters were sent while the registry was empty,
\* and this step ends the one that was still being handled.
BothServed ==
    /\ \E p \in Requesters : mm[p].pc = "found" /\ mm'[p].pc = "done"
    /\ \A p \in Requesters : mm'[p].pc = "done" /\ mm'[p].empty

\* The registry holds one game, active, with the requesters in its seats.
PairedTogether(registry, games) ==
    /\ Cardinality(DOMAIN registry) = 1
    /\ \A id \in DOMAIN registry :
         /\ games[registry[id]].Status = StatusActive
         /\ {games[registry[id]].Player1ID, games[registry[id]].Player2ID}
              = Requesters

\* C12: two matchmaking requests by different players, sent while the
\* registry is empty, end with exactly one game in the registry, active and
\* holding the two requesters, however their handlers interleave.
C12_ConcurrentRequestsPair ==
    [][BothServed => PairedTogether(gamesMap', heap')]_vars

\* C12 witness: both requests were sent on an empty registry and served, and
\* the registry holds one active game with both requesters.
C12_Witness ==
    /\ \A p \in Requesters : mm[p].pc = "done" /\ mm[p].empty
    /\ PairedTogether(gamesMap, heap)

MatchStep == last' # last /\ last'.op = "matchmaking"

\* C13: the one-shot request joins a game only if it is online, waiting, with
\* an empty second seat and a first seat other than the requester; the join
\* seats the requester second, makes the game active and answers matched. If
\* there is no such game it creates exactly one game, waiting, with the
\* requester alone in the first seat, and answers waiting.
C13_OneShotFindOrCreate ==
    [][MatchStep =>
         IF \E ref \in Stored : Eligible(heap[ref], last'.pid)
         THEN /\ last'.err = "matched"
              /\ Eligible(heap[last'.ref], last'.pid)
              /\ JoinedOnly(last'.ref, last'.pid)
         ELSE /\ last'.err = "waiting"
              /\ CreatedOnly(last'.pid)
              /\ last'.ref = Len(heap')]_vars

\* C13 witness: a one-shot request created a second game because the only
\* waiting game was the requester's own.
C13_Witness ==
    /\ last.op = "matchmaking"
    /\ last.err = "waiting"
    /\ Len(heap) = 2
    /\ heap[1].Player1ID = last.pid
    /\ heap[1].Status = StatusWaiting

LobbyStep == last' # last /\ last'.op = "lobby"

\* C14: the lobby request has the outcome of the one-shot request on the same
\* registry: it joins a game only if that game is online, waiting, with an
\* empty second seat and a first seat other than the requester, and creates a
\* waiting game when there is none.
C14_LobbyLikeOneShot ==
    [][LobbyStep =>
         IF \E ref \in Stored : Eligible(heap[ref], last'.pid)
         THEN /\ Eligible(heap[last'.ref], last'.pid)
              /\ JoinedOnly(last'.ref, last'.pid)
         ELSE CreatedOnly(last'.pid)]_vars

\* A lobby request joined a game opened by another player.
C14_Witness ==
    /\ last.op = "lobby"
    /\ last.err = "gameStart"
    /\ heap[last.ref].Player2ID = last.pid
    /\ heap[last.ref].Player1ID # last.pid

\* The envelope was delivered to a connection of player q.
Reached(q, type, g) ==
    \E c \in Conns, i \in 1 .. Len(sent') :
        /\ Owner(c) = q
        /\ sent'[i] = Envelope(c, type, g.ID, g.Player1ID,
                               IF type = "gameStart" THEN g.Player2ID ELSE NoID,
                               NoState)

\* C15: when a lobby request is matched, a gameStart envelope with both player
\* ids reaches a connection of the joiner and a connection of the first-seat
\* player; when it is not matched, a gameCreated envelope with the requester's
\* id alone reaches the requester and nothing else is sent.
C15_LobbyEnvelopes ==
    [][LobbyStep =>
         IF last'.err = "gameStart"
         THEN /\ Reached(heap'[last'.ref].Player2ID, "gameStart",
                         heap'[last'.ref])
              /\ Reached(heap'[last'.ref].Player1ID, "gameStart",
                         heap'[last'.ref])
         ELSE /\ Reached(last'.pid, "gameCreated", heap'[last'.ref])
              /\ Len(sent') = 1]_vars

\* A matched lobby request delivered gameStart to two connections, the
\* joiner's and the first-seat player's.
C15_Witness ==
    /\ last.op = "lobby"
    /\ last.err = "gameStart"
    /\ Len(sent) = 2
    /\ sent[1].type = "gameStart" /\ sent[2].type = "gameStart"
    /\ Owner(sent[1].to) = heap[last.ref].Player2ID
    /\ Owner(sent[2].to) = heap[last.ref].Player1ID
    /\ sent[1].to # sent[2].to

(***************************************************************************)
(* Reset properties.                                                       *)
(***************************************************************************)
\* The token that moves first after a reset, as the property says: the token
\* of the previous winner's seat, red when there was no winner.
FirstTurnPolicy(g) ==
    IF g.WinnerID = NoID THEN RedToken
    ELSE IF g.WinnerID = g.Player1ID THEN RedToken
    ELSE YellowToken

\* The step reset a game: a socket resetConfirm with confirm=true from a
\* participant, or a REST reset that was answered without an error.
ConfirmedResetStep == ResetStep /\ last'.err = NoError

\* The number of cells of the board that hold the token.
TokensOf(board, token) ==
    Cardinality({rc \in Rows \X Cols : board[rc[1]][rc[2]] = token})

HasBotSeat(g) == g.Player1ID = BotID \/ g.Player2ID = BotID

BotSeatToken(g) == IF g.Player1ID = BotID THEN RedToken ELSE YellowToken

\* C17: after a confirmed reset in which no agent move was made the board is
\* empty, the status is active, the winner is empty and the turn is the token
\* of the previous winner's seat, red when there was no winner.
C17_ResetStateAndFirstTurn ==
    [][(ConfirmedResetStep /\ ~(last'.op = "reset" /\ last'.pid # NoID))
         => /\ After.Board = NewBoard
            /\ After.Status = StatusActive
            /\ After.WinnerID = NoID
            /\ After.CurrentTurn = FirstTurnPolicy(Before)]_vars

\* C17 witness: a game of two players was reset after the second seat had
\* won, and yellow moves first.
C17_Witness ==
    /\ last.op \in {"reset", "resetConfirm"}
    /\ last.err = NoError
    /\ heap[last.ref].Player2ID \in Registered
    /\ heap[last.ref].Board = NewBoard
    /\ heap[last.ref].CurrentTurn = YellowToken
    /\ heap[last.ref].WinnerID = NoID

\* C19: after a confirmed reset of a game with a bot seat, when the first turn
\* falls to the bot's token, the state that is stored and sent holds exactly
\* one token, of the bot's colour, and the turn is the human's token.
C19_BotMovesFirstAfterReset ==
    [][(/\ ConfirmedResetStep
        /\ HasBotSeat(Before)
        /\ FirstTurnPolicy(Before) = BotSeatToken(Before))
         => /\ TokensOf(After.Board, BotSeatToken(Before)) = 1
            /\ TokensOf(After.Board, OtherToken(BotSeatToken(Before))) = 0
            /\ After.CurrentTurn = OtherToken(BotSeatToken(Before))]_vars

\* C19 witness: a game whose first seat is the bot was reset and red, the
\* bot's token, is to move.
C19_Witness ==
    /\ last.op \in {"reset", "resetConfirm"}
    /\ last.err = NoError
    /\ heap[last.ref].Player1ID = BotID
    /\ heap[last.ref].CurrentTurn = RedToken

(***************************************************************************)
(* Reset handshake properties (specification SpecNet).                     *)
(***************************************************************************)
Participant(g, playerID) == playerID \in {g.Player1ID, g.Player2ID}

\* The open connections registered for the game g.
ConnsOf(g) == {c \in Conns : conn[c].state = "open" /\ conn[c].key = g.ID}

\* C16: a game is reset only by a resetConfirm with confirm=true from a
\* participant while a reset request of the other participant is pending for
\* that game; no other operation resets a game.
C16_ResetOnlyByHandshake ==
    [][ConfirmedResetStep
         => /\ last'.op = "resetConfirm"
            /\ Participant(Before, last'.pid)
            /\ \E rq \in requested :
                 /\ rq[1] = last'.ref
                 /\ rq[2] # last'.pid
                 /\ Participant(Before, rq[2])]_vars

\* C16 witness: a resetConfirm answered the pending request of the other
\* participant and the game was reset.
C16_Witness ==
    /\ last.op = "resetConfirm"
    /\ last.err = NoError
    /\ <<last.ref, Agreed>> \in requested
    /\ heap[last.ref].Board = NewBoard
    /\ heap[last.ref].Status = StatusActive

RejectStep == last' # last /\ last'.op = "resetRejected"

\* C18: a resetConfirm with confirm=false from a participant changes no field
\* of any game, and what is sent is exactly one resetRejected envelope with
\* the rejecting player's id to each connection of the game.
C18_RejectChangesNothing ==
    [][RejectStep
         => /\ heap' = heap
            /\ gamesMap' = gamesMap
            /\ \A i \in 1 .. Len(sent') :
                 /\ sent'[i].type = "resetRejected"
                 /\ sent'[i].a = last'.pid
                 /\ sent'[i].to \in ConnsOf(Before)
            /\ \A c \in ConnsOf(Before) :
                 Cardinality({i \in 1 .. Len(sent') : sent'[i].to = c}) = 1]_vars

\* C18 witness: a rejection was sent to two connections of a game.
C18_Witness ==
    /\ last.op = "resetRejected"
    /\ Len(sent) = 2
    /\ sent[1].to # sent[2].to
    /\ sent[1].type = "resetRejected"

RequestStep == last' # last /\ last'.op = "resetRequest"

\* C20: a resetRequest from a participant sends exactly one envelope, a
\* resetRequest with the requester's id, to the connection registered for the
\* other participant, which is not a connection of the game; a resetRequest
\* from anyone else sends only an error to the sender.
C20_RequestToOtherOnly ==
    [][RequestStep
         => IF Participant(Before, last'.pid)
            THEN /\ proc' = "up"
                 /\ OtherParticipant(Before, last'.pid)
                      \in DOMAIN playerConnections
                 /\ sent' = <<Envelope(
                       playerConnections[OtherParticipant(Before, last'.pid)],
                       "resetRequest", Before.ID, last'.pid, NoID, NoState)>>
            ELSE /\ Len(sent') = 1
                 /\ sent'[1].type = "error"
                 /\ conn[sent'[1].to].state = "open"
                 /\ conn[sent'[1].to].ref = last'.ref]_vars

\* C20 witness: a participant's resetRequest was written to the lobby
\* connection of the other participant and to no other connection.
C20_Witness ==
    /\ last.op = "resetRequest"
    /\ last.err = NoError
    /\ Len(sent) = 1
    /\ sent[1].type = "resetRequest"
    /\ sent[1].a = last.pid
    /\ conn[sent[1].to] = LobbyConn

(***************************************************************************)
(* Move handlers: the bot's reply and the players' counters.               *)
(***************************************************************************)
\* The game is active and the token to move is the one of its bot seat.
WaitingOnBot(g) ==
    /\ g.Status = StatusActive
    /\ HasBotSeat(g)
    /\ g.CurrentTurn = BotSeatToken(g)

\* A socket handler accepted a move; it is complete in the same step.
SocketMoveDone ==
    /\ last' # last
    /\ last'.op = "move"
    /\ last'.err = NoError
    /\ pend' = 0

\* The REST handler, which accepted a move of the game pend, comes to its end.
RestMoveDone == pend # 0 /\ pend' = 0

\* C23: no move handler that accepted a move ends with the game active and
\* its bot seat's token to move.
C23_BotRepliesBeforeHandlerEnds ==
    [][/\ SocketMoveDone => ~WaitingOnBot(After)
       /\ RestMoveDone => ~WaitingOnBot(heap'[pend])]_vars

\* C23 witness: the REST handler ended after the bot's reply was applied and
\* the human is to move.
C23_Witness ==
    /\ last.op = "botmove"
    /\ last.err = NoError
    /\ pend = 0
    /\ heap[last.ref].Status = StatusActive
    /\ HasBotSeat(heap[last.ref])
    /\ heap[last.ref].CurrentTurn = OtherToken(BotSeatToken(heap[last.ref]))

\* The counters after the game g was finished by a move of playerID: a win
\* between two registered players adds a win to the mover and a loss to the
\* other seat, everything else leaves the counters alone.
CountersAfter(ps, g, playerID, how) ==
    IF /\ how = "win"
       /\ g.Player1ID \in DOMAIN ps
       /\ g.Player2ID \in DOMAIN ps
       /\ g.Player1ID # g.Player2ID
    THEN [id \in DOMAIN ps |->
            IF id = playerID THEN [ps[id] EXCEPT !.Wins = @ + 1]
            ELSE IF id \in {g.Player1ID, g.Player2ID}
            THEN [ps[id] EXCEPT !.Losses = @ + 1]
            ELSE ps[id]]
    ELSE ps

\* C24: when a handler ends after its accepted move finished the game, a win
\* between two registered players has added one win to the winner and one
\* loss to the loser; a draw or a game with a bot seat changed no counter.
C24_CountersFollowTheResult ==
    [][/\ (SocketMoveDone /\ After.Status = StatusFinished)
            => players' = CountersAfter(players, After, last'.pid,
                                        endedBy'[last'.ref])
       /\ (RestMoveDone /\ heap[pend].Status = StatusFinished
             /\ last.op = "move")
            => players' = CountersAfter(players, heap[pend], last.pid,
                                        endedBy[pend])]_vars

\* C24 witness: a move on a socket won a game of alice and bob and the
\* counters of both were updated.
C24_Witness ==
    /\ last.op = "move"
    /\ last.err = NoError
    /\ pend = 0
    /\ heap[last.ref].Status = StatusFinished
    /\ players[last.pid].Wins = 1
    /\ \E id \in DOMAIN players : players[id].Losses = 1

\* C27: a game with the bot in a seat has an agent, and the agent plays the
\* token of that seat.
C27_BotSeatHasAgent ==
    \A ref \in Refs :
        HasBotSeat(heap[ref])
          => /\ heap[ref].Bot # NilBot
             /\ heap[ref].Bot[1].PlayerToken = BotSeatToken(heap[ref])

\* C27 witness: a game created with the bot in its first seat holds an agent
\* that plays red, after a move was accepted.
C27_Witness ==
    /\ moves > 0
    /\ \E ref \in Refs :
         /\ heap[ref].Player1ID = BotID
         /\ heap[ref].Bot # NilBot
         /\ heap[ref].Bot[1].PlayerToken = RedToken

(***************************************************************************)
(* Registry properties.                                                    *)
(***************************************************************************)
\* C26: a stored game is never deleted or replaced: an id of the registry
\* keeps the game it maps to.
C26_StoredGameKeepsItsId ==
    [][\A id \in DOMAIN gamesMap :
         id \in DOMAIN gamesMap' /\ gamesMap'[id] = gamesMap[id]]_vars

\* C26 witness: a second game was created and stored under an id of its own.
C26_Witness ==
    /\ Len(heap) = 2
    /\ Cardinality(DOMAIN gamesMap) = 2
    /\ heap[1].ID # heap[2].ID

\* C29: no key of the connection registry, a game id or the lobby key, maps to
\* an empty list.
C29_NoEmptyFanoutSet == \A k \in DOMAIN connections : connections[k] # <<>>

\* C29 witness: the only connection opened was a game socket; it was closed
\* and the entry of its game is gone.
C29_Witness ==
    /\ connections = NoEntries
    /\ \E c \in Conns : conn[c] = ConnClosed

\* The connections some registry refers to.
Referenced ==
    UNION {{connections[k][i] : i \in 1 .. Len(connections[k])} :
             k \in DOMAIN connections}
    \cup {playerConnections[q] : q \in DOMAIN playerConnections}

\* C30: a connection that was closed is in no fan-out list, not in the lobby
\* list and not in the per-player map.
C30_ClosedConnUnreferenced ==
    \A c \in Conns : conn[c] = ConnClosed => c \notin Referenced

\* C30 witness: a game socket was closed and no registry refers to it, while
\* another connection is still registered.
C30_Witness ==
    /\ \E c \in Conns : conn[c] = ConnClosed /\ c \notin Referenced
    /\ \E c \in Conns : GameConn(c) /\ c \in Referenced

\* C28: a requester that was reported matched holds the second seat of the
\* game it was matched to, whatever another request did meanwhile; so a
\* waiting game seats at most one of two concurrent requesters.
C28_MatchedSeatIsKept ==
    \A p \in Requesters :
        (mm[p].pc = "done" /\ mm[p].result \in {"matched", "gameStart"})
          => heap[mm[p].ref].Player2ID = p

\* C28 witness: of two requests made while one waiting game was stored, one
\* was seated in it and the other created a game of its own.
C28_Witness ==
    /\ heap # <<>>
    /\ heap[1].Player1ID = "carol"
    /\ \E p \in Requesters :
         /\ mm[p].pc = "done"
         /\ mm[p].ref = 1
         /\ heap[1].Player2ID = p
         /\ \A q \in Requesters \ {p} :
              mm[q].pc = "done" /\ mm[q].result \in {"waiting", "gameCreated"}

(***************************************************************************)
(* Broadcast properties (specification SpecCast).                          *)
(***************************************************************************)
\* The connections in the fan-out list of the game g.
ListedFor(g, registry) ==
    IF g.ID \in DOMAIN registry
    THEN {registry[g.ID][i] : i \in 1 .. Len(registry[g.ID])}
    ELSE {}

\* The envelopes of sent' written to c.
WritesTo(c) == {i \in 1 .. Len(sent') : sent'[i].to = c}

\* A handler broadcast the state of a game while a connection of its fan-out
\* list was closed: a socket accepted a move, or a game socket was opened.
CastWithFailure ==
    /\ last' # last
    /\ \/ last'.op = "move" /\ pend' = 0 /\ After.Board # Before.Board
       \/ last'.op = "open"
    /\ \E c \in ListedFor(After, connections') : conn'[c].state = "closing"

\* C21: when a write of a broadcast fails, the connection is removed from the
\* fan-out list, every other connection of the list is written to exactly
\* once, and the broadcast returns with connMutex released.
C21_FailedWriteIsDropped ==
    [][CastWithFailure
         => /\ proc' = "up"
            /\ \A c \in ListedFor(After, connections) :
                 IF conn[c].state = "open"
                 THEN Cardinality(WritesTo(c)) = 1
                 ELSE c \notin ListedFor(After, connections')]_vars

\* C21 witness: a broadcast met a closed connection in the fan-out list.
C21_Witness ==
    /\ last.op \in {"move", "open"}
    /\ last.ref # 0
    /\ \E c \in ListedFor(heap[last.ref], connections) :
         conn[c].state = "closing"

\* C22: when a handler ends after accepting a move, the new state is stored
\* under the game's id and was written once, as a gameState envelope, to every
\* connection registered for the game.
C22_AcceptedMoveIsBroadcast ==
    [][/\ SocketMoveDone
            => /\ gamesMap'[After.ID] = last'.ref
               /\ \A c \in ListedFor(After, connections) :
                    \E i \in WritesTo(c) :
                       /\ sent'[i].type = "gameState"
                       /\ sent'[i].state = <<After>>
       /\ RestMoveDone
            => /\ gamesMap'[heap'[pend].ID] = pend
               /\ \A c \in ListedFor(heap'[pend], connections) :
                    \E i \in WritesTo(c) :
                       /\ sent'[i].type = "gameState"
                       /\ sent'[i].state = <<heap'[pend]>>]_vars

\* C22 witness: a move accepted on a socket was broadcast to two connections.
C22_Witness ==
    /\ last.op = "move"
    /\ last.err = NoError
    /\ Len(sent) = 2
    /\ sent[1].to # sent[2].to
    /\ \A i \in 1 .. 2 : sent[i].type = "gameState"
                         /\ sent[i].state = <<heap[last.ref]>>

\* The two submissions, each (player, column), once both handlers have ended.
BothDone == \A p \in Requesters : mm[p].pc = "done"

\* The states that handling the two submissions one after the other, in
\* either order, leaves.
Serial ==
    LET g == mm["alice"].start
        a == mm["alice"]
        b == mm["bob"]
    IN  {MakeMove(MakeMove(g, a.pid, a.column), b.pid, b.column),
         MakeMove(MakeMove(g, b.pid, b.column), a.pid, a.column)}

\* C25: two move submissions for one game handled concurrently leave the game
\* in a state that handling them one after the other, in some order, leaves.
C25_ConcurrentMovesSerialize ==
    BothDone => heap[1] \in Serial

\* C25 witness: two submissions were handled concurrently, both were
\* accepted, and the game is in a state one of the two orders leaves.
C25_Witness ==
    /\ BothDone
    /\ \A p \in Requesters : mm[p].err = NoError
    /\ heap[1] \in Serial
    /\ heap[1] # mm["alice"].start

\* A step in which a handler finished one inbound game-socket message.
SocketMessageStep ==
    /\ last' # last
    /\ last'.op \in {"resetRequest", "resetConfirm", "move", "join"}

\* C31: handling an inbound game-socket message leaves the server running and
\* the receive loops reading: in particular a resetRequest whose other
\* participant has no directed connection ends without failure.
C31_MessageNeverStopsServer ==
    [][SocketMessageStep => proc' = "up"]_vars

\* C31 witness: a participant's resetRequest was handled, the other
\* participant had a directed connection, and the server is still running.
C31_Witness ==
    /\ last.op = "resetRequest"
    /\ Participant(heap[last.ref], last.pid)
    /\ OtherParticipant(heap[last.ref], last.pid) \in DOMAIN playerConnections
    /\ proc = "up"

\* Every column of the board is a stack: no token lies above an empty cell.
Stacked(board) ==
    \A c \in Cols : \A r \in Rows :
       (r + 1 < BoardHeight /\ board[r][c] # EmptyCell)
          => board[r + 1][c] # EmptyCell

\* C33: in every reachable state of every stored game no token sits above an
\* empty cell of its column, whatever moves and resets were handled.
C33_Gravity ==
    \A ref \in Refs : Stacked(heap[ref].Board)

\* C33 witness: a move was accepted on top of a token already in its column.
C33_Witness ==
    /\ last.op = "move"
    /\ last.err = NoError
    /\ last.col \in Cols
    /\ \E r \in Rows :
         /\ r + 1 < BoardHeight
         /\ heap[last.ref].Board[r][last.col] # EmptyCell
         /\ heap[last.ref].Board[r + 1][last.col] # EmptyCell
         /\ (r = 0 \/ heap[last.ref].Board[r - 1][last.col] = EmptyCell)

\* The turn agrees with the counts for a round that the token first opened:
\* first has as many tokens as the other and moves, or one more and waits.
RoundOf(g, first) ==
    \/ /\ TokensOf(g.Board, first) = TokensOf(g.Board, OtherToken(first))
       /\ g.CurrentTurn = first
    \/ /\ TokensOf(g.Board, first) = TokensOf(g.Board, OtherToken(first)) + 1
       /\ g.CurrentTurn = OtherToken(first)

\* C34: in every reachable state the numbers of red and yellow tokens differ
\* by at most one, and in an active game the turn is the round's first token
\* when the numbers are equal and the other token otherwise.
C34_CountsAndTurnAgree ==
    \A ref \in Refs :
       LET g == heap[ref]
           red == TokensOf(g.Board, RedToken)
           yellow == TokensOf(g.Board, YellowToken)
       IN  /\ red - yellow \in {-1, 0, 1}
           /\ g.Status = StatusActive
                => RoundOf(g, RedToken) \/ RoundOf(g, YellowToken)

\* C34 witness: after an accepted move an active game holds one more red token
\* than yellow tokens and yellow is to move.
C34_Witness ==
    /\ last.op = "move"
    /\ last.err = NoError
    /\ heap[last.ref].Status = StatusActive
    /\ TokensOf(heap[last.ref].Board, RedToken)
         = TokensOf(heap[last.ref].Board, YellowToken) + 1
    /\ heap[last.ref].CurrentTurn = YellowToken

\* Some axis of the board holds four or more equal tokens in a row.
FourOnBoard(board) ==
    \E r \in Rows : \E c \in Cols :
       /\ board[r][c] # EmptyCell
       /\ HasRun(board, r, c, board[r][c])

\* C35: the board of an active game holds no run of four or more equal tokens
\* on any axis.
C35_ActiveBoardHasNoRun ==
    \A ref \in Refs :
       heap[ref].Status = StatusActive => ~FourOnBoard(heap[ref].Board)

\* C35 witness: a move that completed a run of four was accepted and the game
\* is finished, and so not active, with the run on its board.
C35_Witness ==
    /\ last.op = "move"
    /\ last.err = NoError
    /\ heap[last.ref].Status = StatusFinished
    /\ FourOnBoard(heap[last.ref].Board)

\* The cells of the board that hold no token.
EmptyCells(board) == {rc \in Rows \X Cols : board[rc[1]][rc[2]] = EmptyCell}

\* A step in which MakeMove accepted a move.
AcceptedMove == MoveStep /\ last'.err = NoError

\* C36: every accepted move fills one more cell, so at most 42 moves are
\* accepted from an empty board; the move that fills the last cell finishes
\* the game, and a move that completes no run finishes the game only when it
\* fills the last cell.
C36_GameEndsWithinTheBoard ==
    [][AcceptedMove
         => /\ Cardinality(EmptyCells(After.Board))
                 = Cardinality(EmptyCells(Before.Board)) - 1
            /\ EmptyCells(After.Board) = {} => After.Status = StatusFinished
            /\ (After.Status = StatusFinished /\ ~MoveCompletesRun)
                 => EmptyCells(After.Board) = {}]_vars

\* C36 witness: the forty-second move was accepted without completing a run
\* and the game is finished.
C36_Witness ==
    /\ last.op = "move"
    /\ last.err = NoError
    /\ EmptyCells(heap[last.ref].Board) = {}
    /\ ~FourOnBoard(heap[last.ref].Board)
    /\ heap[last.ref].Status = StatusFinished

\* The player ids that hold a seat of the game.
SeatHolders(g) == {g.Player1ID, g.Player2ID} \ {NoID}

\* Some seat holder has a column in which MakeMove accepts their move.
CanMove(g) ==
    \E playerID \in SeatHolders(g) : \E column \in Cols :
       MoveError(g, playerID, column) = NoError

\* C37: in every reachable active state of a game some seat-holding player id
\* has a column for which MakeMove is accepted.
C37_ActiveGameCanMove ==
    \A ref \in Refs : heap[ref].Status = StatusActive => CanMove(heap[ref])

\* C37 witness: after an accepted move the game is active and the other seat
\* holder has a column that MakeMove accepts.
C37_Witness ==
    /\ last.op = "move"
    /\ last.err = NoError
    /\ heap[last.ref].Status = StatusActive
    /\ heap[last.ref].Player1ID # heap[last.ref].Player2ID
    /\ \E playerID \in SeatHolders(heap[last.ref]) \ {last.pid} :
         \E column \in Cols :
            MoveError(heap[last.ref], playerID, column) = NoError

\* The agent and the game agree on the board for the column: the same landing
\* row, and for either token dropped there the same win verdict.
SimulationAgrees(board, col) ==
    LET row == getNextAvailableRow(board, col)
    IN  /\ row = FindRow(board, col)
        /\ \A token \in BotTokens :
              checkWin(PlaceToken(board, row, col, token), row, col, token)
                 = checkWinCondition(PlaceToken(board, row, col, token),
                                     row, col, token)

\* A step in which the REST move handler applied the column GetNextMove
\* returned (the agent exists, so the call returned).
AgentMoveStep ==
    /\ last' # last
    /\ last'.op = "botmove"
    /\ last'.err # ErrPanic

\* C38: for every board and column the agent may play, the agent's landing row
\* and win verdict equal those of MakeMove and checkWinCondition; and the
\* column GetNextMove returns on the bot's turn in an active game is accepted
\* by MakeMove for the bot's seat.
C38_AgentAgreesWithGame ==
    [][/\ \A ref \in Refs : \A col \in Cols :
             isValidMove(heap[ref].Board, col)
                => SimulationAgrees(heap[ref].Board, col)
       /\ AgentMoveStep => last'.err = NoError]_vars

\* C38 witness: the column the agent returned was accepted for the bot's seat,
\* and the agent's token lies on top of that column.
C38_Witness ==
    /\ last.op = "botmove"
    /\ last.err = NoError
    /\ heap[last.ref].Bot # NilBot
    /\ \E r \in Rows :
         /\ heap[last.ref].Board[r][last.col] = heap[last.ref].Bot[1].PlayerToken
         /\ (r = 0 \/ heap[last.ref].Board[r - 1][last.col] = EmptyCell)

\* C39: a seat that holds a player id keeps it in every step, and the second
\* seat is written only while it is empty and the game is waiting.
C39_SeatsAreKept ==
    [][\A ref \in Refs :
          /\ heap'[ref].Player1ID = heap[ref].Player1ID
          /\ heap'[ref].Player2ID # heap[ref].Player2ID
               => /\ heap[ref].Player2ID = NoID
                  /\ heap[ref].Status = StatusWaiting]_vars

\* C39 witness: a joinGame filled the empty second seat of a waiting game.
C39_Witness ==
    /\ last.op = "join"
    /\ last.pid # NoID
    /\ heap[last.ref].Player1ID # last.pid
    /\ heap[last.ref].Player2ID = last.pid
    /\ heap[last.ref].Status = StatusActive
    /\ heap[last.ref].Board = NewBoard
    /\ heap[last.ref].Type = OnlineMultiplayer

\* A step in which a handler applied a column the agent chose: the REST move
\* handler after the human's move, or the REST reset before it responds.
AgentApplied ==
    /\ last' # last
    /\ last'.err = NoError
    /\ \/ last'.op = "botmove"
       \/ last'.op = "reset" /\ last'.pid # NoID

\* The board the agent's column was applied to, the token whose turn it was,
\* and the cells the step filled.
AgentBoard == IF last'.op = "reset" THEN NewBoard ELSE Before.Board

AgentTurn ==
    IF last'.op = "reset" THEN RestResetTurn(Before) ELSE Before.CurrentTurn

AgentCells ==
    {rc \in Rows \X Cols : After.Board[rc[1]][rc[2]] # AgentBoard[rc[1]][rc[2]]}

\* C40: every move applied on behalf of the agent is submitted under the bot
\* seat's player id, on the turn of the agent's token, and places the agent's
\* own token.
C40_AgentMovesAsItself ==
    [][AgentApplied
         => /\ last'.pid = BotID
            /\ AgentTurn = After.Bot[1].PlayerToken
            /\ \A rc \in AgentCells :
                  After.Board[rc[1]][rc[2]] = After.Bot[1].PlayerToken]_vars

\* C40 witness: after the human's move the agent's column was applied under
\* the bot's id and put the agent's token on the board.
C40_Witness ==
    /\ last.op = "botmove"
    /\ last.err = NoError
    /\ last.pid = BotID
    /\ heap[last.ref].Bot # NilBot
    /\ TokensOf(heap[last.ref].Board, heap[last.ref].Bot[1].PlayerToken) > 0
    /\ heap[last.ref].Player1ID # heap[last.ref].Player2ID

\* C32: in a GetNextMove call whose deadline never expires, each score minimax
\* returns to the loop and the column finally chosen equal those of the same
\* search run without the transposition table.
C32_MemoKeepsTheResult ==
    bot.pc \in {"loop", "done"}
       => /\ bot.score = bot.pscore
          /\ bot.st = bot.plain
          /\ bot.ret = bot.pret

\* C32 witness: a call that stored boards in its table returned the column
\* the search without the table returns.
C32_Witness ==
    /\ bot.pc = "done"
    /\ bot.table # NoEntries
    /\ bot.ret \in Cols
    /\ bot.ret = bot.pret
    /\ bot.st = bot.plain

=============================================================================
